---- MODULE Spec2Model ----
(***************************************************************************)
(* A model of rr's Task controller (task.h and the Task part of hpc.cc):   *)
(* the ptrace resume/wait cycle, the runaway-tracee alarm, the stashed      *)
(* signal, the register cache, the retired-conditional-branch counter, the *)
(* blocked-signal mask and the syscall buffer.                              *)
(*                                                                         *)
(* The tracer is single threaded.  Every Task method is one atomic step,   *)
(* except that a method blocks inside waitpid(): the step that enters      *)
(* wait() stops at pc = "waitpid", and the step in which waitpid() returns *)
(* finishes wait() and then runs the rest of the calling method.  The      *)
(* methods are written as operators from a state record to a state record  *)
(* so that a method can call another one in sequence, as the C++ does.     *)
(* The tracee and the kernel are the environment: a running tracee stops   *)
(* with some wait status, retires branches, and is interrupted by          *)
(* PTRACE_INTERRUPT.                                                        *)
(***************************************************************************)
EXTENDS Integers, Sequences, FiniteSets, TLC

VARIABLES
  recording,              \* RECORD == rr_flags()->option (session_record set)
  alive,                  \* the Task objects that exist
  wait_status,            \* Task::wait_status
  stashed_wait_status,    \* Task::stashed_wait_status
  stashed_si,             \* Task::stashed_si
  registers,              \* Task::registers
  registers_known,        \* Task::registers_known
  extra_registers,        \* Task::extra_registers
  extra_registers_known,  \* Task::extra_registers_known
  unstable,               \* Task::unstable
  succ_event_counter,     \* Task::succ_event_counter
  rbcs,                   \* Task::rbcs
  pending_events,         \* Task::pending_events, the event stack
  blocked_sigs,           \* Task::blocked_sigs
  syscallbuf_hdr,         \* Task::syscallbuf_hdr and the header it points to
  flushed_syscallbuf,     \* Task::flushed_syscallbuf
  delay_syscallbuf_reset, \* Task::delay_syscallbuf_reset
  delay_syscallbuf_flush, \* Task::delay_syscallbuf_flush
  trace,                  \* what has been written to ofstream()
  breakpoints,            \* AddressSpace: an internal breakpoint is at the task's ip
  locals,                 \* locals of the method that called the blocked wait()
  hpc_started,            \* hpc_context::started
  hpc_fd,                 \* hpc_context::rbc.fd
  sample_period,          \* hpc_context::rbc.attr.sample_period
  waiter,                 \* static Task* waiter (0 is nullptr)
  waiter_was_interrupted, \* static bool waiter_was_interrupted
  alarm_armed,            \* alarm(3) pending
  pc,                     \* "idle", "waitpid" (blocked in wait()), "aborted"
  cur,                    \* the task whose wait() is blocked in waitpid
  cont,                   \* the method that called the blocked wait()
  ret,                    \* the last value a method returned
  kstate,                 \* tracee: "none", "running", "stopped", "reported", "gone"
  kstatus,                \* tracee: the wait status of its current stop
  ksi,                    \* tracee: the siginfo of its current stop
  kregs,                  \* tracee: its general register file
  kxregs,                 \* tracee: its extended register file
  kintr,                  \* tracee: a PTRACE_INTERRUPT is pending for it
  kctr,                   \* kernel: the value of the task's rbc counter fd
  kdebugreg,              \* tracee: its debug registers, user.u_debugreg
  kowner,                 \* kernel: F_SETOWN_EX owner of the task's counter fd
  sighandlers,            \* Task::sighandlers, the table it points to
  sighandler_tables,      \* the Sighandlers objects: Sighandlers::handlers
  tg,                     \* Task::tg, the task group it points to
  tg_task_set,            \* TaskGroup: HasTaskSet::task_set()
  as,                     \* Task::as, the address space it points to
  as_task_set,            \* AddressSpace: HasTaskSet::task_set()
  tid_futex,              \* Task::tid_futex (0 is nullptr)
  kfutex,                 \* tracee: the word at its cleartid address
  kenabled,               \* kernel: the task's rbc counter is counting
  mem_fd,                 \* AddressSpace::mem_fd() (-1 is none)
  kmem,                   \* tracee: the bytes of each address space
  dbg,                    \* replayer: struct dbg_context, the debugger server
  gdb,                    \* the connection to gdb and the server's place
  open_fds,               \* tracer: its open file descriptors
  g                       \* history variables used to state the properties

TaskVars == << recording, alive, wait_status, stashed_wait_status, stashed_si,
           registers, registers_known, extra_registers, extra_registers_known,
           unstable, succ_event_counter, rbcs, pending_events, blocked_sigs,
           syscallbuf_hdr, flushed_syscallbuf, delay_syscallbuf_reset,
           delay_syscallbuf_flush, trace, hpc_started, hpc_fd, sample_period,
           waiter, waiter_was_interrupted, alarm_armed, pc, cur, cont, ret,
           kstate, kstatus, ksi, kregs, kxregs, kintr, kctr, open_fds, g,
           breakpoints, locals, kdebugreg, kowner, sighandlers,
           sighandler_tables, tg, tg_task_set, as, as_task_set, tid_futex,
           kfutex, kenabled, mem_fd, kmem >>

vars == << TaskVars, dbg, gdb >>

----------------------------------------------------------------------------
(* Bounds of the model. *)

MaxRbc == 3          \* the counter and rbcs are followed up to this value
MaxReg == 1          \* register files take the values 0..MaxReg
MaxTrace == 2        \* record_event() is called while the trace is shorter
MaxRecBytes == 2     \* the tracee buffers records up to this many bytes
MaxEvents == 2       \* the driver pushes events up to this stack depth
MaxLen == 5          \* the driver reads and writes up to this many bytes
MaxReopens == 2      \* the mem fd is stale up to this many times in a call

Tids == {1, 2}       \* 1 is the task made by spawn(), 2 a clone child
RegVals == 0 .. MaxReg
SiCodes == {0, 128}  \* si_code of a genuine stop: SI_USER, SI_KERNEL
Fds == 0 .. 7

----------------------------------------------------------------------------
(* Constants of the program and of the kernel ABI it is written against. *)

SIGTRAP == 5
SIGKILL == 9
SIGCHLD == 17
SIGSTKFLT == 16
SIGSTOP == 19
SIGTSTP == 20
HPC_TIME_SLICE_SIGNAL == SIGSTKFLT
POLL_IN == 1
PTRACE_EVENT_FORK == 1
PTRACE_EVENT_CLONE == 3
PTRACE_EVENT_EXIT == 6
PTRACE_EVENT_STOP == 128
SentinelStatus == -1
Starved == 1073741823  \* numeric_limits<int>::max() / 2
SIGSYS == 31
SYSCALLBUF_DESCHED_SIGNAL == SIGSYS
SIG_BLOCK == 0
SIG_UNBLOCK == 1
SIG_SETMASK == 2

ResumeRequest == {"RESUME_CONT", "RESUME_SINGLESTEP", "RESUME_SYSCALL",
                  "RESUME_SYSEMU", "RESUME_SYSEMU_SINGLESTEP"}
WaitRequest == {"RESUME_WAIT", "RESUME_NONBLOCKING"}

(* <sys/wait.h>: the status word of a stopped tracee, and its decoding.    *)
(* % and \div are floored, so they decode the two's complement -1 as C's   *)
(* & and >> do. *)
StopStatus(event, sig) == event * 65536 + sig * 256 + 127
WIFSTOPPED(status) == status % 256 = 127
WSTOPSIG(status) == (status \div 256) % 256
WIFEXITED(status) == status % 128 = 0
WIFSIGNALED(status) == status % 128 # 0 /\ status % 128 # 127
WTERMSIG(status) == status % 128

ptrace_event_from_status(status) == (status \div 65536) % 256
stopped_from_status(status) == WIFSTOPPED(status)
stop_sig_from_status(status) == WSTOPSIG(status)

(* pending_sig_from_status() calls stop_sig_from_status(), which asserts   *)
(* that the status is a stop. *)
pending_sig_asserts(status) == status # 0 /\ ~stopped_from_status(status)

pending_sig_from_status(status) ==
  IF status = 0 THEN 0
  ELSE LET sig == stop_sig_from_status(status) IN
       IF sig = SIGTRAP + 128 THEN 0
       ELSE IF sig = SIGTRAP
            THEN (IF ptrace_event_from_status(status) # 0 THEN 0 ELSE SIGTRAP)
            ELSE sig % 128

is_signal_triggered_by_ptrace_interrupt(sig) == sig \in {SIGTRAP, SIGSTOP, 0}

max_rbc == 250000   \* rr_flags()->max_rbc
SizeofHdr == 4      \* sizeof(*syscallbuf_hdr), in model bytes

TimeSliceStatus == HPC_TIME_SLICE_SIGNAL * 256 + 127

NoSi == [si_signo |-> 0, si_fd |-> 0, si_code |-> 0]

(* The stops a running tracee makes by itself. *)
SyscallStop == StopStatus(0, SIGTRAP + 128)
GenuineStatuses ==
  { SyscallStop,
    StopStatus(0, SIGCHLD),
    StopStatus(0, SIGSTOP),
    StopStatus(PTRACE_EVENT_CLONE, SIGTRAP),
    StopStatus(PTRACE_EVENT_STOP, SIGSTOP),      \* group-stop of a seized task
    StopStatus(PTRACE_EVENT_STOP, SIGTSTP) }
(* The stops PTRACE_INTERRUPT produces. *)
InterruptStatuses ==
  { StopStatus(PTRACE_EVENT_STOP, SIGTRAP),
    StopStatus(PTRACE_EVENT_STOP, SIGSTOP),
    StopStatus(PTRACE_EVENT_STOP, 0) }

(* An event of the event stack: its type and whether it has exec info. *)
Event(type, info) == [type |-> type, has_exec_info |-> info]
NO_EXEC_INFO == FALSE
HAS_EXEC_INFO == TRUE
Sentinel == Event("EV_SENTINEL", NO_EXEC_INFO)

(* syscallbuf_hdr: null, or the fields of the header it points to. *)
NullHdr == [mapped |-> FALSE, num_rec_bytes |-> 0, locked |-> FALSE,
            abort_commit |-> FALSE]

(* sig_set_t: bit sig - 1 of the mask stands for signal sig.  The model    *)
(* follows the signals 1..SigBits. *)
SigBits == 31
SigsOf(mask) == {sig \in 1 .. SigBits : (mask \div 2 ^ (sig - 1)) % 2 = 1}
RECURSIVE MaskOf(_)
MaskOf(sigs) ==
  IF sigs = {} THEN 0
  ELSE LET sig == CHOOSE x \in sigs : TRUE
       IN 2 ^ (sig - 1) + MaskOf(sigs \ {sig})
MaskOr(a, b) == MaskOf(SigsOf(a) \cup SigsOf(b))
MaskAndNot(a, b) == MaskOf(SigsOf(a) \ SigsOf(b))
Masks == {MaskOf(sigs) : sigs \in SUBSET {SIGCHLD, SIGSYS}}

NoRet == [op |-> "none", t |-> 0, val |-> 0]
Ret(op, t, val) == [op |-> op, t |-> t, val |-> val]

----------------------------------------------------------------------------
(* struct Sighandler and struct Sighandlers.  The signals followed are     *)
(* SIGALRM and SIGCHLD; sa_flags is the set of the flags that are set, and *)
(* sa_restorer and sa_mask are left out of struct kernel_sigaction. *)

SIGALRM == 14
SIG_DFL == 0
SIG_IGN == 1
HandlerAddr == 4096      \* the address of a function of the tracee
TableSigs == {SIGALRM, SIGCHLD}

KernelSigaction(handler, flags) ==
  [k_sa_handler |-> handler, sa_flags |-> flags]

(* Sighandler(): sa and resethand are zero. *)
Sighandler0 == [sa |-> KernelSigaction(SIG_DFL, {}), resethand |-> FALSE]

(* Sighandler(sa) *)
Sighandler(sa) == [sa |-> sa, resethand |-> "SA_RESETHAND" \in sa.sa_flags]

(* (uintptr_t)sa.k_sa_handler & ~(uintptr_t)SIG_IGN *)
is_user_handler(h) == (h.sa.k_sa_handler \div 2) * 2 # 0

(* Sighandlers(): every entry is Sighandler(). *)
DefaultTable == [sig \in TableSigs |-> Sighandler0]

(* Sighandlers::reset_user_handlers() *)
reset_user_handlers(handlers) ==
  [sig \in TableSigs |->
     IF is_user_handler(handlers[sig]) THEN Sighandler0 ELSE handlers[sig]]

(* The Sighandlers objects and the AddressSpace objects that can exist at  *)
(* a time: one for each task, and one more while a task replaces its own.  *)
(* 0 is the null pointer. *)
TableIds == 1 .. Cardinality(Tids) + 1
AsIds == 1 .. Cardinality(Tids) + 1

(* The memory of a tracee: the words at MemAddrs are mapped, and no other  *)
(* word is.  A long of the tracee has word_size bytes. *)
word_size == 4
MemAddrs == 0 .. 2 * word_size - 1
Bytes == {1, 2}
Mem0 == [a \in MemAddrs |-> 0]

----------------------------------------------------------------------------
(* The state as a record, so that one method can call another. *)

St ==
  [ recording |-> recording, alive |-> alive, wait_status |-> wait_status,
    stashed_wait_status |-> stashed_wait_status, stashed_si |-> stashed_si,
    registers |-> registers, registers_known |-> registers_known,
    extra_registers |-> extra_registers,
    extra_registers_known |-> extra_registers_known, unstable |-> unstable,
    succ_event_counter |-> succ_event_counter,
    rbcs |-> rbcs, pending_events |-> pending_events,
    blocked_sigs |-> blocked_sigs, syscallbuf_hdr |-> syscallbuf_hdr,
    flushed_syscallbuf |-> flushed_syscallbuf,
    delay_syscallbuf_reset |-> delay_syscallbuf_reset,
    delay_syscallbuf_flush |-> delay_syscallbuf_flush, trace |-> trace,
    breakpoints |-> breakpoints, locals |-> locals,
    hpc_started |-> hpc_started, hpc_fd |-> hpc_fd,
    sample_period |-> sample_period, waiter |-> waiter,
    waiter_was_interrupted |-> waiter_was_interrupted,
    alarm_armed |-> alarm_armed, pc |-> pc, cur |-> cur, cont |-> cont,
    ret |-> ret, kstate |-> kstate, kstatus |-> kstatus, ksi |-> ksi,
    kregs |-> kregs, kxregs |-> kxregs, kintr |-> kintr, kctr |-> kctr, kdebugreg |-> kdebugreg,
    kowner |-> kowner, sighandlers |-> sighandlers,
    sighandler_tables |-> sighandler_tables, tg |-> tg,
    tg_task_set |-> tg_task_set, as |-> as, as_task_set |-> as_task_set,
    tid_futex |-> tid_futex, kfutex |-> kfutex, kenabled |-> kenabled,
    mem_fd |-> mem_fd,
    kmem |-> kmem,
    open_fds |-> open_fds, g |-> g ]

Commit(s) ==
  \E v \in {s} :
    /\ recording' = v.recording
    /\ alive' = v.alive
    /\ wait_status' = v.wait_status
    /\ stashed_wait_status' = v.stashed_wait_status
    /\ stashed_si' = v.stashed_si
    /\ registers' = v.registers
    /\ registers_known' = v.registers_known
    /\ extra_registers' = v.extra_registers
    /\ extra_registers_known' = v.extra_registers_known
    /\ unstable' = v.unstable
    /\ succ_event_counter' = v.succ_event_counter
    /\ rbcs' = v.rbcs
    /\ pending_events' = v.pending_events
    /\ blocked_sigs' = v.blocked_sigs
    /\ syscallbuf_hdr' = v.syscallbuf_hdr
    /\ flushed_syscallbuf' = v.flushed_syscallbuf
    /\ delay_syscallbuf_reset' = v.delay_syscallbuf_reset
    /\ delay_syscallbuf_flush' = v.delay_syscallbuf_flush
    /\ trace' = v.trace
    /\ breakpoints' = v.breakpoints
    /\ locals' = v.locals
    /\ hpc_started' = v.hpc_started
    /\ hpc_fd' = v.hpc_fd
    /\ sample_period' = v.sample_period
    /\ waiter' = v.waiter
    /\ waiter_was_interrupted' = v.waiter_was_interrupted
    /\ alarm_armed' = v.alarm_armed
    /\ pc' = v.pc
    /\ cur' = v.cur
    /\ cont' = v.cont
    /\ ret' = v.ret
    /\ kstate' = v.kstate
    /\ kstatus' = v.kstatus
    /\ ksi' = v.ksi
    /\ kregs' = v.kregs
    /\ kxregs' = v.kxregs
    /\ kintr' = v.kintr
    /\ kctr' = v.kctr
    /\ kdebugreg' = v.kdebugreg
    /\ kowner' = v.kowner
    /\ sighandlers' = v.sighandlers
    /\ sighandler_tables' = v.sighandler_tables
    /\ tg' = v.tg
    /\ tg_task_set' = v.tg_task_set
    /\ as' = v.as
    /\ as_task_set' = v.as_task_set
    /\ tid_futex' = v.tid_futex
    /\ kfutex' = v.kfutex
    /\ kenabled' = v.kenabled
    /\ mem_fd' = v.mem_fd
    /\ kmem' = v.kmem
    /\ UNCHANGED << dbg, gdb >>
    /\ open_fds' = v.open_fds
    /\ g' = v.g

(* Sequencing: the statements K that follow a statement whose outcome is  *)
(* the state v; v is computed once. *)
Then(v, K(_)) == CHOOSE r \in { K(x) : x \in {v} } : TRUE

(* The debug registers: the addresses DR0..DR3, the status DR6, and the   *)
(* control DR7 as the fields of struct DebugControl for DR0..DR3. *)
NUM_X86_WATCHPOINTS == 4
DrDisabled == [local |-> FALSE, type |-> 0, len |-> 0]
Dr7Zero == [i \in 1 .. NUM_X86_WATCHPOINTS |-> DrDisabled]
NoDebugRegs == [dr |-> [i \in 1 .. NUM_X86_WATCHPOINTS |-> 0], dr6 |-> 0,
                dr7 |-> Dr7Zero]

(* No method is suspended in wait() with locals to keep. *)
NoFrame == [r |-> 0, known_idempotent |-> FALSE]

(* No access to the memory of the tracee: addr is its address and buf its  *)
(* bytes. *)
NoAccess == [addr |-> -1, buf |-> << >>]

(* History: what maybe_flush_syscallbuf() found when it was called. *)
NoPre == [b |-> 0, delay |-> FALSE, flushing |-> FALSE, events |-> << >>,
          written |-> 0, flushed |-> 0, delay_reset |-> FALSE,
          delay_flush |-> FALSE]

(* History: the last resume_execution() that resumed a tracee: the task, *)
(* the rbc_period it was given, and the task's rbcs and the reading of    *)
(* its counter when it was called. *)
NoResume == [t |-> 0, period |-> 0, rbcs |-> 0, reading |-> 0]

(* What the SIGALRM handler found when it ran: NoAlarm while it has not    *)
(* run in the current call. *)
NoAlarm == [waiter |-> -1, status |-> 0]

(* The history variables before anything has happened. *)
G0 ==
  [ did_reset |-> {},
    unwaited |-> [t \in Tids |-> FALSE],
    bad_resume |-> FALSE,
    intr |-> FALSE,
    stash_status |-> [t \in Tids |-> 0],
    stash_si |-> [t \in Tids |-> NoSi],
    stash_by |-> [t \in Tids |-> "none"],
    pop_after |-> [t \in Tids |-> "none"],
    pop_prev |-> [t \in Tids |-> 0],
    last_rbc_ret |-> [t \in Tids |-> 0],
    seen |-> [t \in Tids |-> 0],
    since |-> [t \in Tids |-> 0],
    base |-> [t \in Tids |-> 0],
    expect |-> [t \in Tids |-> 0],
    made_by |-> [t \in Tids |-> 0],
    fresh |-> [t \in Tids |-> 0],
    pre |-> NoPre,
    waited |-> 0,
    waitpid_res |-> "none",
    had_intr |-> FALSE,
    insn_executed |-> [t \in Tids |-> FALSE],
    had_watch |-> FALSE,
    resumed |-> NoResume,
    flags |-> [t \in Tids |-> {}],
    execed |-> {},
    exec_old |-> [id |-> 0, handlers |-> DefaultTable],
    destabilized |-> {},
    dtor |-> << >>,
    killed |-> {},
    reap_res |-> "none",
    input |-> NoAccess,
    last_write |-> NoAccess,
    peeked |-> {},
    reopens |-> 0,
    hpc_open |-> [t \in Tids |-> {}],
    bad_close |-> {},
    alarm_saw |-> NoAlarm,
    alarm_did |-> 0,
    late |-> "no",
    in_trace |-> [t \in Tids |-> 0],
    kept |-> [t \in Tids |-> FALSE],
    null_store |-> FALSE,
    intr_task |-> 0,
    had_intr_task |-> 0 ]

(* A failed assert(), ASSERT() or FATAL() ends the tracer: nothing of its  *)
(* state is left but the mode it ran in and what the history says of the   *)
(* resumes it made. *)
Abort(s) ==
  [ recording |-> s.recording, alive |-> {},
    wait_status |-> [t \in Tids |-> 0],
    stashed_wait_status |-> [t \in Tids |-> 0],
    stashed_si |-> [t \in Tids |-> NoSi],
    registers |-> [t \in Tids |-> 0],
    registers_known |-> [t \in Tids |-> FALSE],
    extra_registers |-> [t \in Tids |-> 0],
    extra_registers_known |-> [t \in Tids |-> FALSE],
    unstable |-> [t \in Tids |-> FALSE],
    succ_event_counter |-> [t \in Tids |-> 0],
    rbcs |-> [t \in Tids |-> 0],
    pending_events |-> [t \in Tids |-> << >>],
    blocked_sigs |-> [t \in Tids |-> 0],
    syscallbuf_hdr |-> [t \in Tids |-> NullHdr],
    flushed_syscallbuf |-> [t \in Tids |-> 0],
    delay_syscallbuf_reset |-> [t \in Tids |-> 0],
    delay_syscallbuf_flush |-> [t \in Tids |-> 0],
    trace |-> << >>,
    breakpoints |-> [t \in Tids |-> FALSE],
    locals |-> NoFrame,
    hpc_started |-> [t \in Tids |-> FALSE],
    hpc_fd |-> [t \in Tids |-> 0],
    sample_period |-> [t \in Tids |-> 0],
    waiter |-> 0, waiter_was_interrupted |-> FALSE, alarm_armed |-> FALSE,
    pc |-> "aborted", cur |-> 0, cont |-> "none", ret |-> NoRet,
    kstate |-> [t \in Tids |-> "none"],
    kstatus |-> [t \in Tids |-> 0],
    ksi |-> [t \in Tids |-> NoSi],
    kregs |-> [t \in Tids |-> 0],
    kxregs |-> [t \in Tids |-> 0],
    kintr |-> [t \in Tids |-> FALSE],
    kctr |-> [t \in Tids |-> 0],
    kdebugreg |-> [t \in Tids |-> NoDebugRegs],
    kowner |-> [t \in Tids |-> 0],
    sighandlers |-> [t \in Tids |-> 0],
    sighandler_tables |-> [i \in TableIds |-> DefaultTable],
    tg |-> [t \in Tids |-> 0],
    tg_task_set |-> [i \in Tids |-> {}],
    as |-> [t \in Tids |-> 0],
    as_task_set |-> [i \in AsIds |-> {}],
    tid_futex |-> [t \in Tids |-> 0],
    kfutex |-> [t \in Tids |-> 0],
    kenabled |-> [t \in Tids |-> FALSE],
    mem_fd |-> [i \in AsIds |-> -1],
    kmem |-> [i \in AsIds |-> Mem0],
    open_fds |-> {0, 1, 2},
    g |-> [G0 EXCEPT !.bad_resume = s.g.bad_resume,
                     !.null_store = s.g.null_store] ]
Returns(s, op, t, val) == [s EXCEPT !.ret = Ret(op, t, val)]
Done(s, op, t, val) == IF s.pc = "aborted" THEN s ELSE Returns(s, op, t, val)

(* ptrace requests succeed only on a tracee that is in a ptrace-stop;      *)
(* xptrace() asserts that the request succeeded. *)
InPtraceStop(s, t) == s.kstate[t] \in {"stopped", "reported"}

----------------------------------------------------------------------------
(* The performance counter (hpc.cc). *)

LowestFreeFd(fds) == CHOOSE fd \in Fds \ fds : \A o \in Fds \ fds : fd <= o

read_rbc(s, t) == IF ~s.hpc_started[t] THEN 0 ELSE s.kctr[t]

(* init_hpc(): calloc() gives a context of zeros. *)
init_hpc(s, t) ==
  [s EXCEPT !.hpc_started[t] = FALSE, !.hpc_fd[t] = 0, !.sample_period[t] = 0]

(* stop_hpc(): PERF_EVENT_IOC_DISABLE on the fd of a started counter. *)
stop_hpc(s, t) ==
  IF ~s.hpc_started[t] THEN s ELSE [s EXCEPT !.kenabled[t] = FALSE]

(* cleanup_hpc().  History: hpc_open are the fds that the counter of the   *)
(* task has opened and not closed, and bad_close are the open fds it has   *)
(* closed that were not among them. *)
cleanup_hpc(s, t) ==
  LET fd == s.hpc_fd[t]
      s1 == stop_hpc(s, t)
  IN [s1 EXCEPT !.open_fds = @ \ {fd}, !.hpc_started[t] = FALSE,
                !.kowner[t] = 0, !.kenabled[t] = FALSE,
                !.g.hpc_open[t] = @ \ {fd},
                !.g.bad_close =
                  IF fd \in s.open_fds /\ fd \notin s.g.hpc_open[t]
                  THEN @ \cup {fd} ELSE @]

(* __start_hpc() that does not make the task the owner of the fd. *)
start_hpc_no_owner(s, t) ==
  LET fd == LowestFreeFd(s.open_fds) IN
  [s EXCEPT !.hpc_fd[t] = fd, !.open_fds = @ \cup {fd}, !.kctr[t] = 0,
            !.hpc_started[t] = TRUE, !.kenabled[t] = TRUE,
            !.g.hpc_open[t] = @ \cup {fd}]

start_hpc(s, t) ==
  LET fd == LowestFreeFd(s.open_fds) IN
  [s EXCEPT !.hpc_fd[t] = fd, !.open_fds = @ \cup {fd}, !.kctr[t] = 0,
            !.hpc_started[t] = TRUE, !.kowner[t] = t, !.kenabled[t] = TRUE,
            !.g.hpc_open[t] = @ \cup {fd}]

(* reset_hpc() that restarts the counter with the sample period it had. *)
reset_hpc_keeps_period(s, t, val) ==
  LET s1 == IF s.hpc_started[t] THEN cleanup_hpc(s, t) ELSE s
      s2 == [s1 EXCEPT !.g.did_reset = @ \cup {t},
                       !.g.seen[t] = 0]
  IN start_hpc(s2, t)

reset_hpc(s, t, val) ==
  LET s1 == IF s.hpc_started[t] THEN cleanup_hpc(s, t) ELSE s
      s2 == [s1 EXCEPT !.sample_period[t] = val,
                       !.g.did_reset = @ \cup {t},
                       !.g.seen[t] = 0]
  IN start_hpc(s2, t)

(* History: a reading of the counter is taken.  since[t] is the sum of    *)
(* the readings taken since the task's last frame with exec info, each     *)
(* counted for the branches the counter had not shown to a reading yet. *)
take_reading(s, t) ==
  [s EXCEPT !.g.since[t] = @ + (read_rbc(s, t) - s.g.seen[t]),
            !.g.seen[t] = read_rbc(s, t)]

(* rbc_count() that assigns the reading to rbcs. *)
rbc_count_body_assigns(s, t) ==
  LET hpc_rbcs == read_rbc(s, t) IN
  IF hpc_rbcs > 0
  THEN reset_hpc([take_reading(s, t) EXCEPT !.rbcs[t] = hpc_rbcs], t, 0)
  ELSE take_reading(s, t)

(* rbc_count() that leaves the counter running after it added a reading. *)
rbc_count_body_no_reset(s, t) ==
  LET hpc_rbcs == read_rbc(s, t) IN
  IF hpc_rbcs > 0
  THEN [take_reading(s, t) EXCEPT !.rbcs[t] = @ + hpc_rbcs]
  ELSE take_reading(s, t)

rbc_count_body(s, t) ==
  LET hpc_rbcs == read_rbc(s, t) IN
  IF hpc_rbcs > 0
  THEN reset_hpc([take_reading(s, t) EXCEPT !.rbcs[t] = @ + hpc_rbcs], t, 0)
  ELSE take_reading(s, t)

rbc_count(s, t) ==
  LET s1 == rbc_count_body(s, t) IN
  Returns([s1 EXCEPT !.g.last_rbc_ret[t] = s1.rbcs[t]],
          "rbc_count", t, s1.rbcs[t])

set_rbc_count(s, t, count) ==
  Returns([s EXCEPT !.rbcs[t] = count], "set_rbc_count", t, count)

flush_inconsistent_state(s, t) ==
  Returns([s EXCEPT !.rbcs[t] = 0], "flush_inconsistent_state", t, 0)

----------------------------------------------------------------------------
(* wait(), try_wait() and the SIGALRM handler. *)

(* History: a method that may change the wait status ran on t after       *)
(* stash_sig(), so a later pop_stash_sig() does not directly follow it. *)
Disturb(s, t) ==
  [s EXCEPT !.g.stash_by[t] = IF @ = "stash_sig" THEN "stash_sig+" ELSE @]

(* wait() up to the call of waitpid(); k names the method that called it. *)
wait_enter(s, t, k) ==
  IF s.unstable[t] THEN Abort(s)
  ELSE LET s0 == Disturb(s, t)
           s1 == IF s0.recording
                 THEN [s0 EXCEPT !.waiter = t, !.alarm_armed = TRUE,
                                 !.wait_status[t] = SentinelStatus]
                 ELSE s0
       IN [s1 EXCEPT !.pc = "waitpid", !.cur = t, !.cont = k, !.ret = NoRet]

(* What waitpid(tid, &wait_status, __WALL) can do for a tracee in the      *)
(* given state: report its stop, fail with EINTR, or fail with ECHILD. *)
WaitpidResults(s, t) ==
  {"EINTR"} \cup (IF s.kstate[t] = "stopped" THEN {"status"} ELSE {})
            \cup (IF s.kstate[t] \in {"none", "gone"} THEN {"ECHILD"} ELSE {})

(* The kernel's part of a successful waitpid(). *)
waitpid_collect(s, t) ==
  [s EXCEPT !.wait_status[t] = s.kstatus[t],
            !.kstate[t] = IF WIFSTOPPED(s.kstatus[t]) THEN "reported" ELSE "gone",
            !.g.unwaited[t] = FALSE]

(* The test of wait() that takes a stop for the one PTRACE_INTERRUPT made, *)
(* without the test of the ptrace event. *)
is_interrupt_stop_any_event(s, t) ==
  /\ s.waiter_was_interrupted
  /\ is_signal_triggered_by_ptrace_interrupt(WSTOPSIG(s.wait_status[t]))

is_interrupt_stop(s, t) ==
  /\ s.waiter_was_interrupted
  /\ PTRACE_EVENT_STOP = ptrace_event_from_status(s.wait_status[t])
  /\ is_signal_triggered_by_ptrace_interrupt(WSTOPSIG(s.wait_status[t]))

(* wait() from the return of waitpid() on.  History: waited is the task,  *)
(* waitpid_res what waitpid() did, and had_intr whether the handler had    *)
(* issued a PTRACE_INTERRUPT since the last wait() that returned true, and *)
(* had_intr_task the task it had sent the last one to. *)
wait_return(s, res) ==
  LET t == s.cur
      s0 == [s EXCEPT !.g.waited = t, !.g.waitpid_res = res,
                      !.g.had_intr = s.g.intr,
                      !.g.had_intr_task = s.g.intr_task]
      s1 == IF res = "status" THEN waitpid_collect(s0, t) ELSE s0
      s2 == IF s1.recording
            THEN [s1 EXCEPT !.waiter = 0, !.alarm_armed = FALSE]
            ELSE s1
      s3 == [s2 EXCEPT !.pc = "idle", !.cur = 0, !.cont = "none"]
  IN
  IF res = "EINTR" THEN Returns(s3, "wait", t, FALSE)
  ELSE IF res # "status" THEN Abort(s3)
  ELSE
    LET s4 ==
          IF is_interrupt_stop(s3, t)
          THEN [s3 EXCEPT
                  !.stashed_wait_status[t] = TimeSliceStatus,
                  !.wait_status[t] = TimeSliceStatus,
                  !.stashed_si[t] = [si_signo |-> HPC_TIME_SLICE_SIGNAL,
                                     si_fd |-> s3.hpc_fd[t],
                                     si_code |-> POLL_IN],
                  !.succ_event_counter[t] = Starved]
          ELSE s3
    IN Returns([s4 EXCEPT !.waiter_was_interrupted = FALSE,
                          !.g.intr = FALSE,
                          !.g.intr_task = 0],
               "wait", t, TRUE)

try_wait(s, t) ==
  IF s.kstate[t] \in {"none", "gone"} THEN Abort(s)
  ELSE IF s.kstate[t] = "stopped"
       THEN Returns(waitpid_collect(Disturb(s, t), t), "try_wait", t, TRUE)
       ELSE Returns(Disturb(s, t), "try_wait", t, FALSE)

(* What the handler reads on entry: the waiter slot and the waiter's       *)
(* wait_status. *)
AlarmSees(s) ==
  [waiter |-> s.waiter,
   status |-> IF s.waiter = 0 THEN 0 ELSE s.wait_status[s.waiter]]

(* The handler without the test of the sentinel. *)
handle_runaway_any_status(s) ==
  LET h == [s EXCEPT !.g.alarm_saw = AlarmSees(s)] IN
  IF s.waiter = 0 THEN h
  ELSE IF s.kstate[s.waiter] \in {"none", "gone"} THEN Abort(s)
  ELSE [h EXCEPT !.kintr[s.waiter] = TRUE,
                 !.waiter_was_interrupted = TRUE,
                 !.g.intr = TRUE,
                 !.g.intr_task = s.waiter,
                 !.g.alarm_did = s.waiter]

(* Task::handle_runaway, the SIGALRM handler.  History: alarm_saw is what  *)
(* it read on entry and alarm_did the task it sent PTRACE_INTERRUPT to. *)
handle_runaway(s) ==
  LET h == [s EXCEPT !.g.alarm_saw = AlarmSees(s)] IN
  IF s.waiter = 0 \/ s.wait_status[s.waiter] # SentinelStatus THEN h
  ELSE IF s.kstate[s.waiter] \in {"none", "gone"} THEN Abort(s)
  ELSE [h EXCEPT !.kintr[s.waiter] = TRUE,
                 !.waiter_was_interrupted = TRUE,
                 !.g.intr = TRUE,
                 !.g.intr_task = s.waiter,
                 !.g.alarm_did = s.waiter]

(* wait() when the alarm expires after waitpid() has returned: before the  *)
(* waiter slot is cleared, or between that and alarm(0). *)
wait_return_alarm(s, res, late) ==
  LET t == s.cur
      s1 == IF res = "status" THEN waitpid_collect(s, t) ELSE s
      s2 == IF late = "after_clear" THEN [s1 EXCEPT !.waiter = 0] ELSE s1
      s3 == handle_runaway([s2 EXCEPT !.alarm_armed = FALSE, !.g.late = late])
  IN IF s3.pc = "aborted" THEN s3 ELSE wait_return(s3, res)

----------------------------------------------------------------------------
(* Resuming, the register cache and the stashed signal. *)

force_status(s, t, status) == [s EXCEPT !.wait_status[t] = status]

(* resume_execution without the two assignments that invalidate the       *)
(* register caches. *)
resume_execution_keeps_caches(s, t, how, wait_how, sig, rbc_period) ==
  LET s1 == rbc_count_body(Disturb(s, t), t)
      s2 == IF ~s1.recording THEN reset_hpc(s1, t, rbc_period)
            ELSE IF rbc_period # 0 THEN Abort(s1) ELSE s1
  IN
  IF s2.pc = "aborted" THEN s2
  ELSE IF ~InPtraceStop(s2, t) THEN Abort(s2)
  ELSE
    LET s3 == [s2 EXCEPT !.kstate[t] = "running",
                         !.g.unwaited[t] = TRUE,
                         !.g.resumed = [t |-> t, period |-> rbc_period,
                                        rbcs |-> s.rbcs[t],
                                        reading |-> read_rbc(s, t)]]
    IN IF wait_how = "RESUME_NONBLOCKING"
       THEN Returns(s3, "resume_execution", t, TRUE)
       ELSE wait_enter(s3, t, "resume_execution")

resume_execution(s, t, how, wait_how, sig, rbc_period) ==
  LET s1 == rbc_count_body(Disturb(s, t), t)
      s2 == IF ~s1.recording THEN reset_hpc(s1, t, rbc_period)
            ELSE IF rbc_period # 0 THEN Abort(s1) ELSE s1
  IN
  IF s2.pc = "aborted" THEN s2
  ELSE IF ~InPtraceStop(s2, t) THEN Abort(s2)
  ELSE
    LET s3 == [s2 EXCEPT !.kstate[t] = "running",
                         !.registers_known[t] = FALSE,
                         !.extra_registers_known[t] = FALSE,
                         !.g.unwaited[t] = TRUE,
                         !.g.resumed = [t |-> t, period |-> rbc_period,
                                        rbcs |-> s.rbcs[t],
                                        reading |-> read_rbc(s, t)]]
    IN IF wait_how = "RESUME_NONBLOCKING"
       THEN Returns(s3, "resume_execution", t, TRUE)
       ELSE wait_enter(s3, t, "resume_execution")

regs_body(s, t) ==
  IF s.registers_known[t] THEN s
  ELSE IF ~InPtraceStop(s, t) THEN Abort(s)
  ELSE [s EXCEPT !.registers[t] = s.kregs[t], !.registers_known[t] = TRUE]

regs(s, t) ==
  LET s1 == regs_body(s, t) IN
  IF s1.pc = "aborted" THEN s1 ELSE Returns(s1, "regs", t, s1.registers[t])

set_regs(s, t, r) ==
  IF ~InPtraceStop(s, t) THEN Abort(s)
  ELSE Returns([s EXCEPT !.registers[t] = r, !.kregs[t] = r,
                         !.registers_known[t] = TRUE],
               "set_regs", t, r)

extra_regs(s, t) ==
  IF s.extra_registers_known[t]
  THEN Returns(s, "extra_regs", t, s.extra_registers[t])
  ELSE IF ~InPtraceStop(s, t) THEN Abort(s)
  ELSE Returns([s EXCEPT !.extra_registers[t] = s.kxregs[t],
                         !.extra_registers_known[t] = TRUE],
               "extra_regs", t, s.kxregs[t])

set_extra_regs(s, t, r) ==
  IF ~InPtraceStop(s, t) THEN Abort(s)
  ELSE Returns([s EXCEPT !.extra_registers[t] = r, !.kxregs[t] = r,
                         !.extra_registers_known[t] = TRUE],
               "set_extra_regs", t, r)

BYTES_1 == 0
BYTES_2 == 1
BYTES_4 == 3
BYTES_8 == 2

(* num_bytes_to_dr_len(); -1 stands for the FATAL() of an unsupported     *)
(* size. *)
num_bytes_to_dr_len(num_bytes) ==
  CASE num_bytes = 1 -> BYTES_1
    [] num_bytes = 2 -> BYTES_2
    [] num_bytes = 4 -> BYTES_4
    [] num_bytes = 8 -> BYTES_8
    [] OTHER -> -1

(* The loop of set_debug_regs() from watchpoint number i on: dr7 is the   *)
(* local DebugControl, and fail_at the number of the fallible ptrace call  *)
(* that fails (0: none).  The result is the state and whether the loop     *)
(* ended without return. *)
RECURSIVE set_debug_regs_loop(_, _, _, _, _, _)
set_debug_regs_loop(s, t, dregs, i, dr7, fail_at) ==
  IF i > Len(dregs) THEN [s |-> s, dr7 |-> dr7, ok |-> TRUE]
  ELSE IF fail_at = i THEN [s |-> s, dr7 |-> dr7, ok |-> FALSE]
  ELSE IF num_bytes_to_dr_len(dregs[i].num_bytes) = -1
  THEN [s |-> Abort(s), dr7 |-> dr7, ok |-> FALSE]
  ELSE set_debug_regs_loop(
         [s EXCEPT !.kdebugreg[t].dr[i] = dregs[i].addr], t, dregs, i + 1,
         [dr7 EXCEPT ![i] = [local |-> TRUE, type |-> dregs[i].type,
                             len |-> num_bytes_to_dr_len(dregs[i].num_bytes)]],
         fail_at)

(* set_debug_regs() that does not clear the control register first. *)
set_debug_regs_keeps_control(s, t, dregs, fail_at) ==
  IF ~InPtraceStop(s, t) THEN Abort(s)
  ELSE
    Then([s EXCEPT !.kdebugreg[t].dr6 = 0,
                   !.g.had_watch =
                     \E i \in 1 .. NUM_X86_WATCHPOINTS :
                       s.kdebugreg[t].dr7[i].local], LAMBDA s1 :
      IF Len(dregs) > NUM_X86_WATCHPOINTS
      THEN Returns(s1, "set_debug_regs", t, [result |-> FALSE, regs |-> dregs])
      ELSE
        Then(set_debug_regs_loop(s1, t, dregs, 1, Dr7Zero, fail_at),
             LAMBDA l :
          IF l.s.pc = "aborted" THEN l.s
          ELSE IF ~l.ok \/ fail_at = Len(dregs) + 1
          THEN Returns(l.s, "set_debug_regs", t,
                       [result |-> FALSE, regs |-> dregs])
          ELSE Returns([l.s EXCEPT !.kdebugreg[t].dr7 = l.dr7],
                       "set_debug_regs", t,
                       [result |-> TRUE, regs |-> dregs])))

(* set_debug_regs(); fail_at is the number of the fallible ptrace call    *)
(* that fails: the write of the address of watchpoint fail_at, or with     *)
(* Len(regs) + 1 the write of the control register, which then keeps its    *)
(* value; 0 if none fails.  History: had_watch is whether a watchpoint was *)
(* enabled when the call was made.  The value noted for the return is the  *)
(* result and the argument. *)
set_debug_regs(s, t, dregs, fail_at) ==
  IF ~InPtraceStop(s, t) THEN Abort(s)
  ELSE
    Then([s EXCEPT !.kdebugreg[t].dr6 = 0,
                   !.kdebugreg[t].dr7 = Dr7Zero,
                   !.g.had_watch =
                     \E i \in 1 .. NUM_X86_WATCHPOINTS :
                       s.kdebugreg[t].dr7[i].local], LAMBDA s1 :
      IF Len(dregs) > NUM_X86_WATCHPOINTS
      THEN Returns(s1, "set_debug_regs", t, [result |-> FALSE, regs |-> dregs])
      ELSE
        Then(set_debug_regs_loop(s1, t, dregs, 1, Dr7Zero, fail_at),
             LAMBDA l :
          IF l.s.pc = "aborted" THEN l.s
          ELSE IF ~l.ok \/ fail_at = Len(dregs) + 1
          THEN Returns(l.s, "set_debug_regs", t,
                       [result |-> FALSE, regs |-> dregs])
          ELSE Returns([l.s EXCEPT !.kdebugreg[t].dr7 = l.dr7],
                       "set_debug_regs", t,
                       [result |-> TRUE, regs |-> dregs])))

has_stashed_sig(s, t) == s.stashed_wait_status[t] # 0

stash_sig(s, t) ==
  IF pending_sig_asserts(s.wait_status[t]) THEN Abort(s)
  ELSE IF pending_sig_from_status(s.wait_status[t]) = 0 THEN Abort(s)
  ELSE IF has_stashed_sig(s, t) THEN Abort(s)
  ELSE IF ~InPtraceStop(s, t) THEN Abort(s)
  ELSE Returns([s EXCEPT !.stashed_wait_status[t] = s.wait_status[t],
                         !.stashed_si[t] = s.ksi[t],
                         !.g.stash_status[t] = s.wait_status[t],
                         !.g.stash_si[t] = s.ksi[t],
                         !.g.stash_by[t] = "stash_sig"],
               "stash_sig", t, 0)

(* pop_stash_sig() without its force_status(). *)
pop_stash_sig_keeps_status(s, t) ==
  IF ~has_stashed_sig(s, t) THEN Abort(s)
  ELSE Returns([s EXCEPT !.stashed_wait_status[t] = 0,
                         !.g.pop_after[t] = s.g.stash_by[t],
                         !.g.pop_prev[t] = s.wait_status[t],
                         !.g.stash_by[t] = "none"],
               "pop_stash_sig", t, s.stashed_si[t])

pop_stash_sig(s, t) ==
  IF ~has_stashed_sig(s, t) THEN Abort(s)
  ELSE LET s1 == force_status(s, t, s.stashed_wait_status[t]) IN
       Returns([s1 EXCEPT !.stashed_wait_status[t] = 0,
                          !.g.pop_after[t] = s.g.stash_by[t],
                          !.g.pop_prev[t] = s.wait_status[t],
                          !.g.stash_by[t] = "none"],
               "pop_stash_sig", t, s.stashed_si[t])

----------------------------------------------------------------------------
(* The event stack and the trace. *)

ev(s, t) == s.pending_events[t][Len(s.pending_events[t])]

push_event(s, t, e) == [s EXCEPT !.pending_events[t] = Append(@, e)]

(* pop_event() of a task whose stack is not empty. *)
pop_event(s, t, expected_type) ==
  IF ev(s, t).type # expected_type THEN Abort(s)
  ELSE [s EXCEPT !.pending_events[t] = SubSeq(@, 1, Len(@) - 1)]

record_extra_regs(e) == e.type = "EV_SIGNAL_HANDLER"

NoExecInfo == [rbc |-> 0, recorded_regs |-> 0, has_extra_regs |-> FALSE,
               recorded_extra_regs |-> 0]

RECURSIVE maybe_flush_syscallbuf(_, _)
RECURSIVE record_local(_, _, _)
RECURSIVE record_event(_, _, _)

record_local(s, t, num_bytes) ==
  Then(maybe_flush_syscallbuf(s, t), LAMBDA s1 :
    IF s1.pc = "aborted" THEN s1
    ELSE [s1 EXCEPT !.trace = Append(@, [kind |-> "raw_data", tid |-> t,
                                         ev |-> ev(s1, t), len |-> num_bytes,
                                         exec |-> NoExecInfo])])

record_event(s, t, e) ==
  Then(maybe_flush_syscallbuf(s, t), LAMBDA s1 :
    IF s1.pc = "aborted" THEN s1
    ELSE IF ~e.has_exec_info
    THEN [s1 EXCEPT !.trace = Append(@, [kind |-> "frame", tid |-> t,
                                         ev |-> e, len |-> 0,
                                         exec |-> NoExecInfo])]
    ELSE
      Then([take_reading(s1, t) EXCEPT !.rbcs[t] = @ + read_rbc(s1, t)],
           LAMBDA s2 :
      Then(regs_body(s2, t), LAMBDA s3 :
      Then(IF s3.pc # "aborted" /\ record_extra_regs(e)
           THEN extra_regs(s3, t) ELSE s3, LAMBDA s4 :
        IF s4.pc = "aborted" THEN s4
        ELSE
          LET frame == [kind |-> "frame", tid |-> t, ev |-> e, len |-> 0,
                        exec |-> [rbc |-> s2.rbcs[t],
                                  recorded_regs |-> s3.registers[t],
                                  has_extra_regs |-> record_extra_regs(e),
                                  recorded_extra_regs |->
                                    IF record_extra_regs(e)
                                    THEN s4.extra_registers[t] ELSE 0]]
          IN reset_hpc([s4 EXCEPT
                          !.trace = Append(@, frame),
                          !.g.expect[t] = s.g.base[t] + s2.g.since[t],
                          !.g.base[t] = frame.exec.rbc,
                          !.g.since[t] = 0],
                       t, max_rbc)))))

record_current_event(s, t) == record_event(s, t, ev(s, t))

(* maybe_flush_syscallbuf() that leaves the records in the buffer. *)
maybe_flush_syscallbuf_keeps_records(s, t) ==
  IF "EV_SYSCALLBUF_FLUSH" = ev(s, t).type THEN s
  ELSE IF \/ ~s.syscallbuf_hdr[t].mapped
          \/ 0 = s.syscallbuf_hdr[t].num_rec_bytes
          \/ s.delay_syscallbuf_flush[t] # 0
  THEN s
  ELSE
    Then(push_event(s, t, Event("EV_SYSCALLBUF_FLUSH", NO_EXEC_INFO)),
         LAMBDA s1 :
    Then(record_local(s1, t, s.syscallbuf_hdr[t].num_rec_bytes + SizeofHdr),
         LAMBDA s2 :
    Then(IF s2.pc = "aborted" THEN s2 ELSE record_current_event(s2, t),
         LAMBDA s3 :
    Then(IF s3.pc = "aborted" THEN s3
         ELSE pop_event(s3, t, "EV_SYSCALLBUF_FLUSH"), LAMBDA s4 :
      IF s4.pc = "aborted" THEN s4
      ELSE [s4 EXCEPT !.flushed_syscallbuf[t] = 1]))))

(* maybe_flush_syscallbuf() that resets the count of record bytes when    *)
(* delay_syscallbuf_reset is set, and not when it is clear. *)
maybe_flush_syscallbuf_inverted_reset(s, t) ==
  IF "EV_SYSCALLBUF_FLUSH" = ev(s, t).type THEN s
  ELSE IF \/ ~s.syscallbuf_hdr[t].mapped
          \/ 0 = s.syscallbuf_hdr[t].num_rec_bytes
          \/ s.delay_syscallbuf_flush[t] # 0
  THEN s
  ELSE
    Then(push_event(s, t, Event("EV_SYSCALLBUF_FLUSH", NO_EXEC_INFO)),
         LAMBDA s1 :
    Then(record_local(s1, t, s.syscallbuf_hdr[t].num_rec_bytes + SizeofHdr),
         LAMBDA s2 :
    Then(IF s2.pc = "aborted" THEN s2 ELSE record_current_event(s2, t),
         LAMBDA s3 :
    Then(IF s3.pc = "aborted" THEN s3
         ELSE pop_event(s3, t, "EV_SYSCALLBUF_FLUSH"), LAMBDA s4 :
      IF s4.pc = "aborted" THEN s4
      ELSE IF s4.syscallbuf_hdr[t].abort_commit THEN Abort(s4)
      ELSE
        LET s5 == IF s4.delay_syscallbuf_reset[t] # 0
                  THEN [s4 EXCEPT !.syscallbuf_hdr[t].num_rec_bytes = 0,
                                  !.flushed_syscallbuf[t] = 1]
                  ELSE [s4 EXCEPT !.flushed_syscallbuf[t] = 1]
        IN [s5 EXCEPT !.g.in_trace[t] = s5.syscallbuf_hdr[t].num_rec_bytes,
                      !.g.kept[t] = s.delay_syscallbuf_reset[t] # 0]))))

(* maybe_flush_syscallbuf() that tests neither delay flag. *)
maybe_flush_syscallbuf_no_delay(s, t) ==
  IF "EV_SYSCALLBUF_FLUSH" = ev(s, t).type THEN s
  ELSE IF \/ ~s.syscallbuf_hdr[t].mapped
          \/ 0 = s.syscallbuf_hdr[t].num_rec_bytes
  THEN s
  ELSE
    Then(push_event(s, t, Event("EV_SYSCALLBUF_FLUSH", NO_EXEC_INFO)),
         LAMBDA s1 :
    Then(record_local(s1, t, s.syscallbuf_hdr[t].num_rec_bytes + SizeofHdr),
         LAMBDA s2 :
    Then(IF s2.pc = "aborted" THEN s2 ELSE record_current_event(s2, t),
         LAMBDA s3 :
    Then(IF s3.pc = "aborted" THEN s3
         ELSE pop_event(s3, t, "EV_SYSCALLBUF_FLUSH"), LAMBDA s4 :
      IF s4.pc = "aborted" THEN s4
      ELSE IF s4.syscallbuf_hdr[t].abort_commit THEN Abort(s4)
      ELSE [s4 EXCEPT !.syscallbuf_hdr[t].num_rec_bytes = 0,
                      !.flushed_syscallbuf[t] = 1]))))

(* History: in_trace is the count of record bytes in the buffer that the  *)
(* last flush wrote to the trace, and kept whether delay_syscallbuf_reset  *)
(* was set when that flush was made. *)
maybe_flush_syscallbuf(s, t) ==
  IF "EV_SYSCALLBUF_FLUSH" = ev(s, t).type THEN s
  ELSE IF \/ ~s.syscallbuf_hdr[t].mapped
          \/ 0 = s.syscallbuf_hdr[t].num_rec_bytes
          \/ s.delay_syscallbuf_flush[t] # 0
  THEN s
  ELSE
    Then(push_event(s, t, Event("EV_SYSCALLBUF_FLUSH", NO_EXEC_INFO)),
         LAMBDA s1 :
    Then(record_local(s1, t, s.syscallbuf_hdr[t].num_rec_bytes + SizeofHdr),
         LAMBDA s2 :
    Then(IF s2.pc = "aborted" THEN s2 ELSE record_current_event(s2, t),
         LAMBDA s3 :
    Then(IF s3.pc = "aborted" THEN s3
         ELSE pop_event(s3, t, "EV_SYSCALLBUF_FLUSH"), LAMBDA s4 :
      IF s4.pc = "aborted" THEN s4
      ELSE IF s4.syscallbuf_hdr[t].abort_commit THEN Abort(s4)
      ELSE
        LET s5 == IF s4.delay_syscallbuf_reset[t] = 0
                  THEN [s4 EXCEPT !.syscallbuf_hdr[t].num_rec_bytes = 0,
                                  !.flushed_syscallbuf[t] = 1]
                  ELSE [s4 EXCEPT !.flushed_syscallbuf[t] = 1]
        IN [s5 EXCEPT !.g.in_trace[t] = s5.syscallbuf_hdr[t].num_rec_bytes,
                      !.g.kept[t] = s.delay_syscallbuf_reset[t] # 0]))))

----------------------------------------------------------------------------
(* The blocked signals and the syscall buffer. *)

is_sig_blocked(s, t, sig) ==
  LET sig_bit == sig - 1 IN (s.blocked_sigs[t] \div 2 ^ sig_bit) % 2 = 1

is_desched_sig_blocked(s, t) == is_sig_blocked(s, t, SYSCALLBUF_DESCHED_SIGNAL)

(* syscallbuf_child and syscallbuf_hdr are set together, so one flag       *)
(* stands for both being non-null. *)
init_syscall_buffer(s, t) ==
  [s EXCEPT !.syscallbuf_hdr[t] = [NullHdr EXCEPT !.mapped = TRUE],
            !.g.in_trace[t] = 0]

(* init_buffers() for a tracee whose rrcall says that the syscallbuf is    *)
(* enabled or not, as the tracer's flag does.  When it is not, the last    *)
(* statement stores through the null syscallbuf_hdr: the tracer takes a    *)
(* SIGSEGV ("crash"), or the build has dropped the store ("skip").         *)
(* History: null_store is whether the call reached that statement with a   *)
(* null syscallbuf_hdr. *)
init_buffers(s, t, syscallbuf_enabled, ub) ==
  IF ~InPtraceStop(s, t) THEN Abort(s)
  ELSE LET s1 == IF syscallbuf_enabled THEN init_syscall_buffer(s, t) ELSE s
       IN IF s1.syscallbuf_hdr[t].mapped
          THEN Returns([s1 EXCEPT !.syscallbuf_hdr[t].locked =
                                    is_desched_sig_blocked(s1, t)],
                       "init_buffers", t, syscallbuf_enabled)
          ELSE LET s2 == [s1 EXCEPT !.g.null_store = TRUE]
               IN IF ub = "crash" THEN Abort(s2)
                  ELSE Returns(s2, "init_buffers", t, syscallbuf_enabled)

(* update_sigmask() that leaves the header as it is. *)
update_sigmask_keeps_locked(s, t, how, setp, failed, set) ==
  IF failed \/ ~setp THEN Returns(s, "update_sigmask", t, how)
  ELSE IF /\ s.syscallbuf_hdr[t].mapped
          /\ s.syscallbuf_hdr[t].locked
          /\ ~is_desched_sig_blocked(s, t)
  THEN Abort(s)
  ELSE IF how \notin {SIG_BLOCK, SIG_UNBLOCK, SIG_SETMASK} THEN Abort(s)
  ELSE Returns([s EXCEPT !.blocked_sigs[t] =
                  IF how = SIG_BLOCK THEN MaskOr(@, set)
                  ELSE IF how = SIG_UNBLOCK THEN MaskAndNot(@, set)
                  ELSE set],
               "update_sigmask", t, how)

update_sigmask(s, t, how, setp, failed, set) ==
  IF failed \/ ~setp THEN Returns(s, "update_sigmask", t, how)
  ELSE IF /\ s.syscallbuf_hdr[t].mapped
          /\ s.syscallbuf_hdr[t].locked
          /\ ~is_desched_sig_blocked(s, t)
  THEN Abort(s)
  ELSE IF how \notin {SIG_BLOCK, SIG_UNBLOCK, SIG_SETMASK} THEN Abort(s)
  ELSE
    LET s1 == [s EXCEPT !.blocked_sigs[t] =
                 IF how = SIG_BLOCK THEN MaskOr(@, set)
                 ELSE IF how = SIG_UNBLOCK THEN MaskAndNot(@, set)
                 ELSE set]
        s2 == IF s1.syscallbuf_hdr[t].mapped
              THEN [s1 EXCEPT !.syscallbuf_hdr[t].locked =
                                is_desched_sig_blocked(s1, t)]
              ELSE s1
    IN Returns(s2, "update_sigmask", t, how)

(* copy_state(), called on the task t that from->os_fork_into() or         *)
(* os_clone_into() has made. *)
copy_state(s, t, from) ==
  LET s1 == regs_body(s, from)
      s2 == IF s1.pc = "aborted" THEN s1
            ELSE set_regs(s1, t, s1.registers[from])
      s3 == IF s2.pc = "aborted" THEN s2
            ELSE IF s2.syscallbuf_hdr[from].mapped
            THEN [init_syscall_buffer(s2, t) EXCEPT
                    !.syscallbuf_hdr[t] = s2.syscallbuf_hdr[from]]
            ELSE s2
  IN IF s3.pc = "aborted" THEN s3
     ELSE LET s4 == [s3 EXCEPT !.wait_status[t] = s3.wait_status[from],
                               !.blocked_sigs[t] = s3.blocked_sigs[from],
                               !.pending_events[t] = s3.pending_events[from]]
              s5 == rbc_count(s4, from)
              s6 == [s5 EXCEPT !.rbcs[t] = s5.ret.val]
          IN Returns(reset_hpc(s6, t, 0), "copy_state", t, from)

----------------------------------------------------------------------------
(* Task::spawn and the methods that run after a wait() they called. *)

(* A resume that a Task method issues by itself.  History: bad_resume     *)
(* records that it resumed a task whose last resume no wait()/try_wait()  *)
(* has answered with true. *)
own_resume(s, t, how, wait_how, sig, rbc_period) ==
  LET s1 == resume_execution(s, t, how, wait_how, sig, rbc_period) IN
  IF s1.pc = "aborted" THEN s1
  ELSE [s1 EXCEPT !.g.bad_resume = @ \/ s.g.unwaited[t]]

spawn_loop(s, t) ==
  IF ~stopped_from_status(s.wait_status[t]) THEN Abort(s)
  ELSE IF SIGSTOP = stop_sig_from_status(s.wait_status[t])
       THEN Returns(force_status(s, t, 0), "spawn", t, t)
       ELSE LET s1 == own_resume(s, t, "RESUME_CONT",
                                 "RESUME_NONBLOCKING", 0, 0)
            IN IF s1.pc = "aborted" THEN s1 ELSE wait_enter(s1, t, "spawn")

(* Task::Task: the fields are zero, and the sentinel event is pushed. *)
Task_ctor(s, t) ==
  init_hpc(push_event([s EXCEPT !.alive = @ \cup {t}], t, Sentinel), t)

(* A Sighandlers object and an AddressSpace object that no task points    *)
(* to: what new makes. *)
NewTable(s) == CHOOSE i \in TableIds : \A t \in Tids : s.sighandlers[t] # i
NewAs(s) == CHOOSE i \in AsIds : \A t \in Tids : s.as[t] # i

(* Session::create_tg(): a new task group, named after the task that is   *)
(* its only member. *)
create_tg(s, t) == [s EXCEPT !.tg[t] = t, !.tg_task_set[t] = {t}]

(* Session::create_vm(): a new address space, the task its only member. *)
create_vm(s, t) ==
  [s EXCEPT !.as[t] = NewAs(s), !.as_task_set[NewAs(s)] = {t}]

(* Sighandlers::init_from_current_process(), after spawn() has installed  *)
(* Task::handle_runaway for SIGALRM with signal(); the other dispositions  *)
(* of the tracer are the default ones. *)
init_from_current_process ==
  [DefaultTable EXCEPT
     ![SIGALRM] = Sighandler(KernelSigaction(HandlerAddr, {"SA_RESTART"}))]

(* spawn() forks the first tracee; mask is the signal mask of the tracer, *)
(* which rt_sigprocmask() reads into blocked_sigs. *)
spawn(s, mask) ==
  LET t == 1
      s1 == [Task_ctor(s, t) EXCEPT
               !.kstate[t] = "running",
               !.sighandlers[t] = NewTable(s),
               !.sighandler_tables[NewTable(s)] = init_from_current_process,
               !.blocked_sigs[t] = mask]
  IN wait_enter(create_vm(create_tg(s1, t), t), t, "spawn")

(* The address that a clone with CLONE_CLEARTID is given for the child. *)
CleartidAddr(t) == 8192 + 4 * t

(* Task::clone for the new thread or process child that the kernel has   *)
(* made, up to its wait().  The kernel has stored the child's tid at the  *)
(* cleartid address. *)
clone(s, parent, child, flags) ==
  LET s1 == [Task_ctor(s, child) EXCEPT
               !.kstate[child] = "running",
               !.blocked_sigs[child] = s.blocked_sigs[parent],
               !.g.made_by[child] = parent,
               !.g.flags[child] = flags]
      s2 == IF "CLONE_SHARE_SIGHANDLERS" \in flags
            THEN [s1 EXCEPT !.sighandlers[child] = s.sighandlers[parent]]
            ELSE [s1 EXCEPT !.sighandlers[child] = NewTable(s),
                            !.sighandler_tables[NewTable(s)] = DefaultTable]
      s3 == IF "CLONE_SHARE_TASK_GROUP" \in flags
            THEN [s2 EXCEPT !.tg[child] = s.tg[parent],
                            !.tg_task_set[s.tg[parent]] = @ \cup {child}]
            ELSE create_tg(s2, child)
      s4 == IF "CLONE_SHARE_VM" \in flags
            THEN [s3 EXCEPT !.as[child] = s.as[parent]]
            ELSE [s3 EXCEPT !.as[child] = NewAs(s),
                            !.as_task_set[NewAs(s)] = {},
                            !.kmem[NewAs(s)] = s.kmem[s.as[parent]]]
      s5 == IF "CLONE_CLEARTID" \in flags
            THEN [s4 EXCEPT !.tid_futex[child] = CleartidAddr(child),
                            !.kfutex[child] = child]
            ELSE s4
  IN wait_enter(s5, child, "clone")

(* The task gives up its pointer to its table: the shared_ptr deletes the *)
(* table when no other task points to it. *)
release_table(s, t) ==
  IF \E u \in Tids \ {t} : s.sighandlers[u] = s.sighandlers[t] THEN s
  ELSE [s EXCEPT !.sighandler_tables[s.sighandlers[t]] = DefaultTable]

(* Task::update_sigaction() at the exit of a sigaction syscall: regs holds *)
(* the signal, the result of the syscall and the address of the new        *)
(* action (0 is null), where the tracee's memory holds sa. *)
update_sigaction(s, t, sig, syscall_result, new_sigaction, sa) ==
  Returns(IF syscall_result = 0 /\ new_sigaction # 0
          THEN [s EXCEPT !.sighandler_tables[s.sighandlers[t]][sig] =
                           Sighandler(sa)]
          ELSE s,
          "update_sigaction", t, 0)

(* Task::signal_delivered() *)
signal_delivered(s, t, sig) ==
  Returns(IF s.sighandler_tables[s.sighandlers[t]][sig].resethand
          THEN [s EXCEPT !.sighandler_tables[s.sighandlers[t]][sig] =
                           Sighandler0]
          ELSE s,
          "signal_delivered", t, 0)

(* Task::post_exec() that resets the user handlers of the table it shares. *)
post_exec_in_place(s, t, has_file) ==
  LET s1 == [s EXCEPT !.sighandler_tables[s.sighandlers[t]] =
                        reset_user_handlers(@),
                      !.as_task_set[s.as[t]] = @ \ {t},
                      !.g.execed = @ \cup {t},
                      !.g.exec_old =
                        [id |-> s.sighandlers[t],
                         handlers |-> s.sighandler_tables[s.sighandlers[t]]]]
  IN IF ~has_file THEN Abort(s1)
     ELSE Returns(create_vm(s1, t), "post_exec", t, 0)

(* Task::post_exec(); has_file is that execve_file is not empty.  The      *)
(* process name is not followed.  History: the task has exec'd, and the    *)
(* table it had pointed to and what that held. *)
post_exec(s, t, has_file) ==
  LET table == NewTable(s)
      s1 == [release_table(s, t) EXCEPT
                      !.sighandlers[t] = table,
                      !.sighandler_tables[table] =
                        reset_user_handlers(
                          s.sighandler_tables[s.sighandlers[t]]),
                      !.as_task_set[s.as[t]] = @ \ {t},
                      !.g.execed = @ \cup {t},
                      !.g.exec_old =
                        [id |-> s.sighandlers[t],
                         handlers |-> s.sighandler_tables[s.sighandlers[t]]]]
  IN IF ~has_file THEN Abort(s1)
     ELSE Returns(create_vm(s1, t), "post_exec", t, 0)

(* Task::destabilize_task_group(), TaskGroup::destabilize() *)
(* History: the group has been destabilized. *)
destabilize_task_group(s, t) ==
  Returns([s EXCEPT
             !.unstable = [u \in Tids |->
                             IF u \in s.tg_task_set[s.tg[t]] THEN TRUE
                             ELSE s.unstable[u]],
             !.g.destabilized = @ \cup {s.tg[t]}],
          "destabilize_task_group", t, 0)

(* Task::open_mem_fd(): the old fd, if any, is closed, and the tracee is   *)
(* made to open its memory and to send the fd, which never fails. *)
open_mem_fd(s, t) ==
  LET i == s.as[t]
      s1 == IF s.mem_fd[i] >= 0
            THEN [s EXCEPT !.open_fds = @ \ {s.mem_fd[i]}, !.mem_fd[i] = -1]
            ELSE s
      fd == LowestFreeFd(s1.open_fds)
  IN [s1 EXCEPT !.mem_fd[i] = fd, !.open_fds = @ \cup {fd}]

open_mem_fd_if_needed(s, t) ==
  IF s.mem_fd[s.as[t]] < 0 THEN open_mem_fd(s, t) ELSE s

(* start & ~(word_size - 1) *)
start_word_of(start) == (start \div word_size) * word_size

(* std::min(end_word - start, buf_size - n): the bytes of the word of      *)
(* start that the access still has to move. *)
length_in_word(start, left) ==
  LET room == start_word_of(start) + word_size - start
  IN IF room < left THEN room ELSE left

(* PTRACE_PEEKDATA and PTRACE_POKEDATA of the word at w fail, and set      *)
(* errno, when the word is not mapped. *)
WordMapped(w) == w \in MemAddrs

(* The loop of read_bytes_ptrace(): mem is the memory of the tracee and    *)
(* buf the bytes read so far. *)
RECURSIVE read_ptrace_loop(_, _, _, _)
read_ptrace_loop(mem, addr, buf_size, buf) ==
  LET nread == Len(buf)
      start == addr + nread
      length == length_in_word(start, buf_size - nread)
  IN IF ~(nread < buf_size) THEN buf
     ELSE IF ~WordMapped(start_word_of(start)) THEN buf
     ELSE read_ptrace_loop(mem, addr, buf_size,
            buf \o [i \in 1 .. length |-> mem[start + i - 1]])

(* Task::read_bytes_ptrace(): the value returned is the number of bytes of *)
(* val.buf. *)
read_bytes_ptrace(s, t, addr, buf_size) ==
  Returns(s, "read_bytes_ptrace", t,
          [addr |-> addr, buf_size |-> buf_size,
           buf |-> read_ptrace_loop(s.kmem[s.as[t]], addr, buf_size, << >>)])

(* The loop of write_bytes_ptrace(): w is the state of the loop, the       *)
(* memory, the count nwritten and the words that were read, and the word   *)
(* is read first for a length below rmw.     The word v that is not read  *)
(* first is not initialized, and all its bytes are then taken from buf.    *)
(* The result of PTRACE_POKEDATA is not looked at. *)
RECURSIVE write_ptrace_loop(_, _, _, _)
write_ptrace_loop(w, addr, buf, rmw) ==
  LET start == addr + w.nwritten
      sw == start_word_of(start)
      length == length_in_word(start, Len(buf) - w.nwritten)
      v == [a \in sw .. sw + word_size - 1 |->
              IF a >= start /\ a < start + length
              THEN buf[a - addr + 1]
              ELSE w.mem[a]]
  IN IF ~(w.nwritten < Len(buf)) THEN w
     ELSE IF length < rmw /\ ~WordMapped(sw) THEN w
     ELSE write_ptrace_loop(
            [mem |-> IF WordMapped(sw)
                     THEN [a \in MemAddrs |->
                             IF a >= sw /\ a < sw + word_size THEN v[a]
                             ELSE w.mem[a]]
                     ELSE w.mem,
             nwritten |-> w.nwritten + length,
             peeked |-> IF length < rmw THEN w.peeked \cup {sw}
                        ELSE w.peeked],
            addr, buf, rmw)

write_bytes_ptrace_with(s, t, addr, buf, rmw) ==
  LET w == write_ptrace_loop([mem |-> s.kmem[s.as[t]], nwritten |-> 0,
                              peeked |-> {}], addr, buf, rmw)
  IN Returns([s EXCEPT !.kmem[s.as[t]] = w.mem,
                       !.g.peeked = w.peeked,
                       !.g.last_write = [addr |-> addr, buf |-> buf]],
             "write_bytes_ptrace", t, w.nwritten)

(* write_bytes_ptrace() that reads every word before it writes it. *)
write_bytes_ptrace_reads_all(s, t, addr, buf) ==
  write_bytes_ptrace_with(s, t, addr, buf, word_size + 1)

(* Task::write_bytes_ptrace().  History: peeked are the words that it has  *)
(* read, and last_write is the call. *)
write_bytes_ptrace(s, t, addr, buf) ==
  write_bytes_ptrace_with(s, t, addr, buf, word_size)

(* What pread64() and pwrite64() at addr move through a mem fd that is not *)
(* stale: the bytes up to the first one that is not mapped. *)
MappedPrefix(addr, n) ==
  Cardinality({k \in 1 .. n : \A j \in 0 .. k - 1 : addr + j \in MemAddrs})

(* Task::read_bytes_fallible() up to its pread64().  The value returned is *)
(* val.nread, and val.buf are the bytes read. *)
read_bytes_fallible(s, t, addr, buf_size) ==
  IF buf_size < 0 THEN Abort(s)
  ELSE IF 0 = buf_size
       THEN Returns(s, "read_bytes_fallible", t,
                    [addr |-> addr, buf_size |-> buf_size, buf |-> << >>,
                     nread |-> 0])
  ELSE IF s.mem_fd[s.as[t]] < 0
       THEN LET r == read_bytes_ptrace(s, t, addr, buf_size).ret.val
            IN Returns(s, "read_bytes_fallible", t,
                       [addr |-> addr, buf_size |-> buf_size,
                        buf |-> r.buf, nread |-> Len(r.buf)])
  ELSE [s EXCEPT !.pc = "pread", !.cur = t,
                 !.locals = [addr |-> addr, buf_size |-> buf_size]]

(* read_bytes_fallible() from the return of pread64(), which has returned  *)
(* 0 and left errno 0 if the fd is stale.  History: reopens counts the     *)
(* open_mem_fd() of the call. *)
pread_return(s, stale) ==
  LET t == s.cur
      addr == s.locals.addr
      buf_size == s.locals.buf_size
      k == MappedPrefix(addr, buf_size)
      s1 == [s EXCEPT !.pc = "idle", !.cur = 0, !.locals = NoFrame]
  IN IF stale
     THEN read_bytes_fallible([open_mem_fd(s1, t) EXCEPT !.g.reopens = @ + 1],
                              t, addr, buf_size)
     ELSE Returns(s1, "read_bytes_fallible", t,
                  [addr |-> addr, buf_size |-> buf_size,
                   buf |-> [i \in 1 .. k |-> s.kmem[s.as[t]][addr + i - 1]],
                   nread |-> IF k = 0 THEN -1 ELSE k])

(* Task::write_bytes_helper() up to its pwrite64(). *)
write_bytes_helper(s, t, addr, buf) ==
  IF 0 = Len(buf)
  THEN Returns([s EXCEPT !.g.last_write = [addr |-> addr, buf |-> buf]],
               "write_bytes_helper", t, 0)
  ELSE IF s.mem_fd[s.as[t]] < 0
       THEN Returns(write_bytes_ptrace(s, t, addr, buf),
                    "write_bytes_helper", t, 0)
  ELSE [s EXCEPT !.pc = "pwrite", !.cur = t,
                 !.locals = [addr |-> addr, buf |-> buf]]

(* write_bytes_helper() from the return of pwrite64(). *)
pwrite_return(s, stale) ==
  LET t == s.cur
      addr == s.locals.addr
      buf == s.locals.buf
      k == MappedPrefix(addr, Len(buf))
      s1 == [s EXCEPT !.pc = "idle", !.cur = 0, !.locals = NoFrame]
      s2 == [s1 EXCEPT
               !.kmem[s.as[t]] =
                 [a \in MemAddrs |->
                    IF a >= addr /\ a < addr + k THEN buf[a - addr + 1]
                    ELSE @[a]],
               !.g.last_write = [addr |-> addr, buf |-> buf]]
  IN IF stale
     THEN write_bytes_helper([open_mem_fd(s1, t) EXCEPT !.g.reopens = @ + 1],
                             t, addr, buf)
     ELSE IF k # Len(buf) THEN Abort(s2)
     ELSE Returns(s2, "write_bytes_helper", t, 0)

(* Task::kill() up to its wait().  The kernel part of the tgkill(): the    *)
(* tracee, if there is one, is killed, and what it has to report next is   *)
(* st, the exit event or the termination by SIGKILL. *)
kill(s, t, st) ==
  LET s1 == IF s.kstate[t] \in {"none", "gone"} THEN s
            ELSE [s EXCEPT !.kstate[t] = "stopped", !.kstatus[t] = st]
  IN IF ~s1.unstable[t] THEN wait_enter(s1, t, "kill")
     ELSE Returns([s1 EXCEPT !.tid_futex[t] = 0, !.g.killed = @ \cup {t}],
                  "kill", t, 0)

(* kill() from the return of its wait(), whose result it does not look at. *)
kill_tail(s, t) ==
  IF WIFSIGNALED(s.wait_status[t]) /\ SIGKILL # WTERMSIG(s.wait_status[t])
  THEN Abort(s)
  ELSE Returns([s EXCEPT
                  !.unstable[t] = @ \/ WIFSIGNALED(s.wait_status[t]),
                  !.tid_futex[t] = 0,
                  !.g.killed = @ \cup {t}],
               "kill", t, 0)

(* History: dtor lists the steps that the destructor running, or the last  *)
(* one that ran, has taken. *)
DtorStep(s, step) ==
  IF s.pc = "aborted" THEN s ELSE [s EXCEPT !.g.dtor = Append(@, step)]

(* destroy_hpc() *)
destroy_hpc(s, t) == cleanup_hpc(s, t)

(* Task::destroy_local_buffers().  desched_fd is not followed. *)
destroy_local_buffers(s, t) == [s EXCEPT !.syscallbuf_hdr[t].mapped = FALSE]

(* The end of ~Task: the object is no more, and its shared pointers are    *)
(* released.  The table and the address space that no other task points   *)
(* to are deleted, and the address space closes its mem fd. *)
Task_dtor_end(s, t) ==
  LET i == s.as[t]
      s1 == [release_table(s, t) EXCEPT
               !.alive = @ \ {t}, !.sighandlers[t] = 0, !.tg[t] = 0,
               !.as[t] = 0, !.pc = "idle", !.cur = 0]
      s2 == IF \E u \in Tids : s1.as[u] = i THEN s1
            ELSE [s1 EXCEPT !.open_fds = @ \ {s.mem_fd[i]},
                            !.mem_fd[i] = -1, !.kmem[i] = Mem0]
  IN Returns(s2, "~Task", t, 0)

(* The kernel part of PTRACE_DETACH: a tracee in a ptrace stop is let go,  *)
(* and for any other the request fails. *)
ptrace_detach(s, t) ==
  IF InPtraceStop(s, t) THEN [s EXCEPT !.kstate[t] = "detached"] ELSE s

(* Task::detach_and_reap() after its waitpid() loop. *)
reap_tail(s, t) ==
  IF s.tid_futex[t] # 0 /\ Cardinality(s.as_task_set[s.as[t]]) > 0
  THEN DtorStep([s EXCEPT !.pc = "futex_wait", !.cur = t], "futex_wait")
  ELSE Task_dtor_end(s, t)

(* Task::detach_and_reap() that does not look at unstable. *)
detach_and_reap_joins_unstable(s, t) ==
  IF s.mem_fd[s.as[t]] < 0 THEN Abort(s)
  ELSE DtorStep([DtorStep(ptrace_detach(s, t), "detach") EXCEPT
                   !.pc = "reap", !.cur = t, !.g.reap_res = "none"],
                "waitpid")

(* Task::detach_and_reap() up to the first waitpid() of its loop. *)
detach_and_reap(s, t) ==
  IF s.mem_fd[s.as[t]] < 0 THEN Abort(s)
  ELSE LET s1 == DtorStep(ptrace_detach(s, t), "detach") IN
       IF s1.unstable[t] THEN Task_dtor_end(s1, t)
       ELSE DtorStep([s1 EXCEPT !.pc = "reap", !.cur = t,
                                !.g.reap_res = "none"],
                     "waitpid")

(* What waitpid() can do in the loop of detach_and_reap(): the tracee that *)
(* was let go is a child of the tracer only if spawn() forked it. *)
ReapResults(s, t) ==
  {"EINTR"} \cup (IF s.kstate[t] = "stopped" THEN {"status"} ELSE {})
            \cup (IF \/ s.kstate[t] \in {"none", "gone"}
                     \/ s.kstate[t] = "detached" /\ t # 1
                  THEN {"ECHILD"} ELSE {})

(* One turn of the loop of detach_and_reap(), from the return of waitpid(). *)
(* History: reap_res is what that waitpid() reported. *)
reap_return(s, res) ==
  LET t == s.cur IN
  IF res = "ECHILD" THEN reap_tail([s EXCEPT !.g.reap_res = "ECHILD"], t)
  ELSE IF res = "EINTR" THEN [s EXCEPT !.g.reap_res = "EINTR"]
  ELSE LET s1 == waitpid_collect(s, t)
           st == s1.wait_status[t]
       IN IF WIFEXITED(st) \/ WIFSIGNALED(st)
          THEN reap_tail([s1 EXCEPT !.g.reap_res = "dead"], t)
          ELSE IF PTRACE_EVENT_EXIT = ptrace_event_from_status(st)
               THEN [s1 EXCEPT !.g.reap_res = "exit_event"]
               ELSE Abort(s1)

(* Task::futex_wait() of detach_and_reap() has read 0 at the address. *)
futex_wait_return(s) == Task_dtor_end(s, s.cur)

(* Task::~Task, up to the point where it blocks or to its end. *)
Task_dtor(s, t) ==
  LET s1 == [s EXCEPT !.tg_task_set[s.tg[t]] = @ \ {t},
                      !.as_task_set[s.as[t]] = @ \ {t},
                      !.g.dtor = << >>]
      s2 == DtorStep(destroy_hpc(s1, t), "destroy_hpc")
      s3 == DtorStep(destroy_local_buffers(s2, t), "destroy_local_buffers")
  IN detach_and_reap(s3, t)

(* The signals that replay ignores when the tracee stops with them. *)
is_ignored_replay_signal(sig) == sig = SIGCHLD

(* finish_emulated_syscall() that sets no breakpoint, also when the        *)
(* instruction at ip is not known to be idempotent. *)
finish_emulated_syscall_no_breakpoint(s, t, known_idempotent) ==
  Then(regs_body(s, t), LAMBDA s1 :
    IF s1.pc = "aborted" THEN s1
    ELSE
      Then([s1 EXCEPT
              !.locals = [r |-> s1.registers[t],
                          known_idempotent |-> known_idempotent],
              !.g.insn_executed[t] = FALSE], LAMBDA s2 :
      Then(own_resume(s2, t, "RESUME_SYSEMU_SINGLESTEP", "RESUME_WAIT", 0, 0),
           LAMBDA s3 :
        IF s3.pc = "aborted" THEN s3
        ELSE [s3 EXCEPT !.cont = "finish_emulated_syscall"])))

(* finish_emulated_syscall() up to the wait() of cont_sysemu_singlestep(); *)
(* known_idempotent is whether ip is the traced or the untraced syscall ip *)
(* of the syscallbuf.  History: insn_executed is whether the tracee has    *)
(* executed the original instruction at ip since the call. *)
finish_emulated_syscall(s, t, known_idempotent) ==
  Then(regs_body(s, t), LAMBDA s1 :
    IF s1.pc = "aborted" THEN s1
    ELSE
      Then([s1 EXCEPT
              !.locals = [r |-> s1.registers[t],
                          known_idempotent |-> known_idempotent],
              !.breakpoints[t] = IF ~known_idempotent THEN TRUE ELSE @,
              !.g.insn_executed[t] = FALSE], LAMBDA s2 :
      Then(own_resume(s2, t, "RESUME_SYSEMU_SINGLESTEP", "RESUME_WAIT", 0, 0),
           LAMBDA s3 :
        IF s3.pc = "aborted" THEN s3
        ELSE [s3 EXCEPT !.cont = "finish_emulated_syscall"])))

(* finish_emulated_syscall() after cont_sysemu_singlestep(), whose result  *)
(* it does not look at.  The value noted for the return is the locals of   *)
(* the call. *)
finish_emulated_syscall_tail(s, t) ==
  LET status == s.wait_status[t]
      passes == /\ ~pending_sig_asserts(status)
                /\ \/ pending_sig_from_status(status) = SIGTRAP
                   \/ is_ignored_replay_signal(pending_sig_from_status(status))
  IN
  IF ~s.locals.known_idempotent /\ ~passes THEN Abort(s)
  ELSE
    Then([s EXCEPT !.breakpoints[t] =
                     IF ~s.locals.known_idempotent THEN FALSE ELSE @],
         LAMBDA s1 :
    Then(set_regs(s1, t, s.locals.r), LAMBDA s2 :
      IF s2.pc = "aborted" THEN s2
      ELSE Returns([force_status(s2, t, 0) EXCEPT !.locals = NoFrame],
                   "finish_emulated_syscall", t, s.locals)))

(* A blocking resume_execution() that returns true whatever its wait()    *)
(* returned. *)
after_wait_resume_true(s, k) ==
  IF s.pc = "aborted" THEN s
  ELSE IF k = "resume_execution"
       THEN Returns(s, "resume_execution", s.ret.t, TRUE)
  ELSE s

(* The rest of the method that called wait(), given wait()'s result. *)
after_wait(s, k) ==
  IF s.pc = "aborted" THEN s
  ELSE IF k = "resume_execution"
       THEN Returns(s, "resume_execution", s.ret.t, s.ret.val)
  ELSE IF k = "spawn" THEN spawn_loop(s, s.ret.t)
  ELSE IF k = "clone"
       THEN Returns([open_mem_fd_if_needed(s, s.ret.t) EXCEPT
                       !.g.fresh[s.ret.t] = s.g.made_by[s.ret.t],
                       !.as_task_set[s.as[s.ret.t]] = @ \cup {s.ret.t}],
                    "clone", s.ret.t, s.ret.t)
  ELSE IF k = "finish_emulated_syscall"
       THEN finish_emulated_syscall_tail(s, s.ret.t)
  ELSE IF k = "kill" THEN kill_tail(s, s.ret.t)
  ELSE s

----------------------------------------------------------------------------
(* The debugger server (replayer/dbg_gdb.c).  The input from gdb is        *)
(* followed in chunks: the start of a packet with its body ('$' up to but  *)
(* not including '#'), the end of a packet ('#' and the checksum), an       *)
(* acknowledgement '+', and the interrupt character.  The output is        *)
(* followed in tokens: an acknowledgement, a packet and an asynchronous    *)
(* packet; checksums are not followed.  dbg is struct dbg_context; gdb is  *)
(* the connection (what gdb has sent and not been read, what has been      *)
(* flushed to gdb), the place the server is at, and the history. *)

INTERRUPT_CHAR == "\\x03"

NoReq == [type |-> "DREQ_NONE", target |-> 0]

dbg_is_resume_request(req) == req.type \in {"DREQ_CONTINUE", "DREQ_STEP"}

request_needs_immediate_response(req) ==
  req.type \notin {"DREQ_NONE", "DREQ_CONTINUE", "DREQ_STEP"}

(* A packet as process_packet() takes it apart: the request character,    *)
(* the name up to the separator, the arguments after it (NoArgs: there is  *)
(* no separator), and the thread id that the arguments hold (NoTid: none). *)
NoArgs == "(null)"
NoTid == -1
Pkt(text, request, name, args, tid) ==
  [text |-> text, request |-> request, name |-> name, args |-> args,
   tid |-> tid]
NoPkt == Pkt("", "", "", NoArgs, NoTid)

InterruptPkt == Pkt(INTERRUPT_CHAR, INTERRUPT_CHAR, "", NoArgs, NoTid)

PacketStart(p) == [c |-> "$", p |-> p]
PacketEnd == [c |-> "#", p |-> NoPkt]
GdbAck == [c |-> "+", p |-> NoPkt]
Interrupt == [c |-> INTERRUPT_CHAR, p |-> NoPkt]

(* History: what dbg_get_request() found when it was called. *)
NoCall == [resume |-> FALSE, buffered |-> FALSE, readable |-> FALSE,
           req |-> NoReq]
(* History: the packet process_packet() processed last, what it returned   *)
(* and how many reply packets it wrote. *)
NoLast == [p |-> NoPkt, ret |-> 0, replies |-> 0, non_stop |-> FALSE]

(* The input buffer followed byte by byte: inbuf holds the bytes of the    *)
(* buffer up to the last one ever written (the bytes after them are the    *)
(* zeros of sys_malloc_zero()), sock the bytes gdb has sent and the server  *)
(* has not read, and pc where read_packet() is: idle (not called),          *)
(* skip_read and search_read (blocked in the read_data_once() of its first  *)
(* and second loop), returned, aborted.  History: sent counts the bytes    *)
(* gdb has sent, stale is whether the search for '#' has ended on a byte   *)
(* at or after inlen, and pre is the buffer that the last process_packet() *)
(* found. *)
NUL == "\\0"
NoBytesPre == [inbuf |-> << >>, inlen |-> 0, packetend |-> 0]
Bytes0 ==
  [ pc |-> "idle", inbuf |-> << >>, inlen |-> 0, packetend |-> 0,
    checkedlen |-> 0, sock |-> << >>, sent |-> 0, stale |-> FALSE,
    pre |-> NoBytesPre ]

Dbg0 ==
  [ req |-> NoReq, resume_thread |-> 0, query_thread |-> 0,
    serving_symbol_lookups |-> FALSE, no_ack |-> FALSE, non_stop |-> FALSE,
    inbuf |-> << >>, outbuf |-> << >>, bytes |-> Bytes0 ]

Gdb0 ==
  [ pc |-> "idle",        \* idle, read_packet, aborted, fatal, exited
    sock |-> << >>,       \* sent by gdb, not read yet
    wire |-> << >>,       \* flushed to gdb
    open |-> FALSE,       \* gdb has sent the start of a packet, not its end
    sent |-> 0,           \* history: packets, interrupts and '+' sent
    n |-> 0,              \* history: packets read_packet() has returned
    req_n |-> 0,          \* history: the packet that made the current request
    op |-> "none",        \* history: the call of the driver that returned last
    ret |-> NoReq,        \* history: what dbg_get_request() returned last
    ret_n |-> 0,          \* history: the packet that made it return
    nonblocking |-> FALSE, \* history: it returned without reading
    entered |-> FALSE,    \* history: dbg_get_request() was the last step
    call |-> NoCall,
    last |-> NoLast ]

DbgResult(x, rv) == [x |-> x, ret |-> rv]

(* fatal() and a failed assert() end the server; exit(0) ends it too. *)
DFatal(x) == [x EXCEPT !.gdb.pc = "fatal"]
DAbort(x) == [x EXCEPT !.gdb.pc = "aborted"]
DExit(x) == [x EXCEPT !.gdb.pc = "exited"]
DStopped(x) == x.gdb.pc \in {"fatal", "aborted", "exited"}

(* History: a token carries the packet read last when it was written (n  *)
(* its number, p its text), the current request then (type) and the packet *)
(* that had made it (req), and the call of the driver that wrote the       *)
(* token (by). *)
write_data_raw(x, k, data) ==
  [x EXCEPT !.dbg.outbuf =
     Append(@, [k |-> k, body |-> data, n |-> x.gdb.n,
                p |-> x.gdb.last.p.text, type |-> x.dbg.req.type,
                req |-> x.gdb.req_n, by |-> x.gdb.op])]

write_flush(x) ==
  [x EXCEPT !.gdb.wire = @ \o x.dbg.outbuf, !.dbg.outbuf = << >>]

write_packet(x, data) ==
  [write_data_raw(x, "$", data) EXCEPT !.gdb.last.replies = @ + 1]

write_async_packet(x, data) == write_data_raw(x, "%", data)

(* consume_request() that leaves the reply in the output buffer. *)
consume_request_no_flush(x) == [x EXCEPT !.dbg.req = NoReq, !.gdb.req_n = 0]

consume_request(x) ==
  write_flush([x EXCEPT !.dbg.req = NoReq, !.gdb.req_n = 0])

HexDigits ==
  << "0", "1", "2", "3", "4", "5", "6", "7", "8", "9", "a", "b", "c", "d",
     "e", "f" >>

RECURSIVE Hex(_)
Hex(n) == IF n < 16 THEN HexDigits[n + 1]
          ELSE Hex(n \div 16) \o HexDigits[(n % 16) + 1]

(* printf("%02x") of a value that is not negative. *)
Hex02(n) == IF n < 16 THEN "0" \o Hex(n) ELSE Hex(n)

(* to_gdb_signum(): gdb's number of a Linux signal; -1 stands for the      *)
(* fatal "Unknown signal". *)
to_gdb_signum(sig) ==
  IF 34 <= sig /\ sig <= 64 THEN sig + 12
  ELSE CASE sig = 0 -> 0
         [] sig = 1 -> 1      \* SIGHUP
         [] sig = 2 -> 2      \* SIGINT
         [] sig = 3 -> 3      \* SIGQUIT
         [] sig = 4 -> 4      \* SIGILL
         [] sig = SIGTRAP -> 5
         [] sig = 6 -> 6      \* SIGABRT
         [] sig = 7 -> 10     \* SIGBUS
         [] sig = 8 -> 8      \* SIGFPE
         [] sig = 9 -> 9      \* SIGKILL
         [] sig = 10 -> 30    \* SIGUSR1
         [] sig = 11 -> 11    \* SIGSEGV
         [] sig = 12 -> 31    \* SIGUSR2
         [] sig = 13 -> 13    \* SIGPIPE
         [] sig = 14 -> 14    \* SIGALRM
         [] sig = 15 -> 15    \* SIGTERM
         [] sig = SIGSTKFLT -> 38
         [] sig = SIGCHLD -> 20
         [] sig = 18 -> 19    \* SIGCONT
         [] sig = SIGSTOP -> 17
         [] sig = SIGTSTP -> 18
         [] sig = 21 -> 21    \* SIGTTIN
         [] sig = 22 -> 22    \* SIGTTOU
         [] sig = 23 -> 16    \* SIGURG
         [] sig = 24 -> 24    \* SIGXCPU
         [] sig = 25 -> 25    \* SIGXFSZ
         [] sig = 26 -> 26    \* SIGVTALRM
         [] sig = 27 -> 27    \* SIGPROF
         [] sig = 28 -> 28    \* SIGWINCH
         [] sig = 29 -> 23    \* SIGIO
         [] sig = 30 -> 32    \* SIGPWR
         [] sig = SIGSYS -> 12
         [] OTHER -> -1

send_stop_reply_packet(x, async, pfx, thread, sig) ==
  IF sig >= 0
  THEN IF to_gdb_signum(sig) < 0 THEN DFatal(x)
       ELSE LET buf == pfx \o "T" \o Hex02(to_gdb_signum(sig)) \o "thread:"
                         \o Hex02(thread) \o ";"
            IN IF async THEN write_async_packet(x, buf)
               ELSE write_packet(x, buf)
  ELSE write_packet(x, "E01")

IsPacketStart(ch) == ch.c \in {"$", INTERRUPT_CHAR}

RECURSIVE SkipToStart(_)
SkipToStart(buf) ==
  IF buf = << >> \/ IsPacketStart(Head(buf)) THEN buf
  ELSE SkipToStart(Tail(buf))

(* skip_to_packet_start(): 0 if the start of a packet or the interrupt     *)
(* character is buffered, and then it is first in the buffer; else 1, and  *)
(* the buffer is empty. *)
skip_to_packet_start(x) ==
  DbgResult([x EXCEPT !.dbg.inbuf = SkipToStart(@)],
            IF SkipToStart(x.dbg.inbuf) = << >> THEN 1 ELSE 0)

poll_incoming(x) == IF x.gdb.sock # << >> THEN 1 ELSE 0

(* sniff_packet() that does not poll the socket. *)
sniff_packet_no_poll(x) ==
  LET r == skip_to_packet_start(x) IN
  IF r.ret = 0 THEN DbgResult(r.x, 0) ELSE DbgResult(r.x, 1)

sniff_packet(x) ==
  LET r == skip_to_packet_start(x) IN
  IF r.ret = 0 THEN DbgResult(r.x, 0)
  ELSE DbgResult(r.x, IF poll_incoming(r.x) = 0 THEN 1 ELSE 0)

(* read_data_once(), once data can be read: all of it is read. *)
read_data_once(x) ==
  [x EXCEPT !.dbg.inbuf = @ \o x.gdb.sock, !.gdb.sock = << >>]

(* The buffer holds what read_packet() waits for: the interrupt character *)
(* first, or the start of a packet first and the end of the packet. *)
PacketRead(buf) ==
  /\ buf # << >>
  /\ \/ Head(buf).c = INTERRUPT_CHAR
     \/ Head(buf).c = "$" /\ \E i \in 2 .. Len(buf) : buf[i].c = "#"

packetend(buf) ==
  IF Head(buf).c = INTERRUPT_CHAR THEN 1
  ELSE CHOOSE i \in 2 .. Len(buf) :
         buf[i].c = "#" /\ \A j \in 2 .. i - 1 : buf[j].c # "#"

(* read_packet() that acknowledges every packet. *)
read_packet_always_acks(x) ==
  LET head == Head(x.dbg.inbuf)
      x1 == [x EXCEPT !.gdb.n = @ + 1,
                      !.gdb.last = [NoLast EXCEPT
                        !.p = IF head.c = INTERRUPT_CHAR THEN InterruptPkt
                              ELSE head.p]]
  IN
  IF Head(x1.dbg.inbuf).c = INTERRUPT_CHAR THEN x1
  ELSE write_flush(write_data_raw(x1, "+", ""))

(* read_packet() from the point where the buffer holds the packet.         *)
(* History: the packet is counted and noted as the last one read. *)
read_packet(x) ==
  LET head == Head(x.dbg.inbuf)
      x1 == [x EXCEPT !.gdb.n = @ + 1,
                      !.gdb.last = [NoLast EXCEPT
                        !.p = IF head.c = INTERRUPT_CHAR THEN InterruptPkt
                              ELSE head.p]]
  IN
  IF Head(x1.dbg.inbuf).c = INTERRUPT_CHAR THEN x1
  ELSE IF ~x1.dbg.no_ack THEN write_flush(write_data_raw(x1, "+", ""))
  ELSE x1

query(x, p) ==
  LET name == p.name IN
  IF name = "C"
  THEN DbgResult([x EXCEPT !.dbg.req.type = "DREQ_GET_CURRENT_THREAD"], 1)
  ELSE IF name = "Attached" THEN DbgResult(write_packet(x, "1"), 0)
  ELSE IF name = "fThreadInfo"
  THEN DbgResult([x EXCEPT !.dbg.req.type = "DREQ_GET_THREAD_LIST"], 1)
  ELSE IF name = "sThreadInfo" THEN DbgResult(write_packet(x, "l"), 0)
  ELSE IF name = "GetTLSAddr" THEN DbgResult(write_packet(x, ""), 0)
  ELSE IF name = "Offsets"
  THEN DbgResult([x EXCEPT !.dbg.req.type = "DREQ_GET_OFFSETS",
                           !.dbg.req.target = x.dbg.query_thread], 1)
  ELSE IF name = "Supported"
  THEN DbgResult(write_packet(write_packet(x, "QStartNoAckMode+;QNonStop+"),
                              "QNonStop+"), 0)
  ELSE IF name = "Symbol"
  THEN DbgResult(write_packet(
                   [x EXCEPT !.dbg.serving_symbol_lookups = TRUE], "OK"), 0)
  ELSE IF name = "TStatus" THEN DbgResult(write_packet(x, ""), 0)
  ELSE DbgResult(write_packet(x, ""), 0)   \* also qP..., not followed

(* set() that accepts QNonStop with any value. *)
set_any_non_stop(x, p, ub) ==
  LET name == p.name
      args == p.args
  IN
  IF name = "StartNoAckMode"
  THEN DbgResult([write_packet(x, "OK") EXCEPT !.dbg.no_ack = TRUE], 0)
  ELSE IF name = "NonStop"
  THEN DbgResult([write_packet(x, "OK") EXCEPT !.dbg.non_stop = TRUE], 0)
  ELSE DbgResult(write_packet(x, ""), 0)

(* set(); strcmp() with the null args of a QNonStop that has no ':' is     *)
(* undefined: ub is what it does, crash the server or compare unequal. *)
set(x, p, ub) ==
  LET name == p.name
      args == p.args
  IN
  IF name = "StartNoAckMode"
  THEN DbgResult([write_packet(x, "OK") EXCEPT !.dbg.no_ack = TRUE], 0)
  ELSE IF name = "NonStop"
  THEN IF args = NoArgs
       THEN DbgResult(IF ub = "crash" THEN DAbort(x) ELSE DFatal(x), 0)
       ELSE IF args # "1" THEN DbgResult(DFatal(x), 0)
       ELSE DbgResult([write_packet(x, "OK") EXCEPT !.dbg.non_stop = TRUE], 0)
  ELSE DbgResult(write_packet(x, ""), 0)

(* What the bytes after the end of a packet's body read as, where the      *)
(* code reads them as a thread id: -1 is bytes that fail the assertion on  *)
(* the character after the id, 0 a NUL, 184 the checksum b8 of vCont;s. *)
StaleBytes == {-1, 0, 184}

(* process_vpacket().  A vCont;s that names no thread has its thread id    *)
(* parsed from the bytes after the body, stale. *)
process_vpacket(x, p, stale) ==
  LET name == p.name
      cmd == p.args
  IN
  IF name = "Cont"
  THEN IF cmd = NoArgs THEN DbgResult(DAbort(x), 0)
       ELSE IF cmd \in {"C", "c"}
       THEN DbgResult(write_packet(
              [x EXCEPT !.dbg.req.type = "DREQ_CONTINUE",
                        !.dbg.req.target = x.dbg.resume_thread], "OK"), 1)
       ELSE IF cmd = "s"
       THEN LET x1 == [x EXCEPT !.dbg.req.type = "DREQ_STEP"] IN
            IF p.tid # NoTid
            THEN DbgResult(write_packet(
                   [x1 EXCEPT !.dbg.req.target = p.tid], "OK"), 1)
            ELSE IF stale < 0 THEN DbgResult(DAbort(x1), 0)
            ELSE DbgResult(write_packet(
                   [x1 EXCEPT !.dbg.req.target = stale], "OK"), 1)
       ELSE IF cmd = "t"
       THEN LET thread == IF p.tid # NoTid THEN p.tid
                          ELSE IF stale < 0 THEN 0 ELSE stale
            IN DbgResult(send_stop_reply_packet(write_packet(x, "OK"),
                                                TRUE, "Stop:", thread, 0), 0)
       ELSE DbgResult(write_packet(x, ""), 0)
  ELSE IF name = "Cont?"
  THEN DbgResult(write_packet(x, "vCont;c;C;s;S;t;"), 0)
  ELSE IF name = "Stopped" THEN DbgResult(write_packet(x, "OK"), 0)
  ELSE DbgResult(write_packet(x, ""), 0)

(* The breakpoint and watchpoint types 0 to 4 of the z and Z packets, in   *)
(* the order of the request types from DREQ_SET_SW_BREAK on. *)
WatchTypes ==
  [ n \in {"0", "1", "2", "3", "4"} |->
      CASE n = "0" -> "SW_BREAK"
        [] n = "1" -> "HW_BREAK"
        [] n = "2" -> "WR_WATCH"
        [] n = "3" -> "RD_WATCH"
        [] n = "4" -> "RDWR_WATCH" ]

(* The two switch statements of process_packet().  The number that a z or  *)
(* Z packet starts with is the name of the packet here; the addresses and  *)
(* lengths of the packets m, z and Z, and the register of p, are left out  *)
(* of the request. *)
process_packet_switch(x, p, stale, ub) ==
  LET request == p.request IN
  IF request = "D" THEN DbgResult(DExit(write_packet(x, "OK")), 0)
  ELSE IF request = "H"
  THEN DbgResult([x EXCEPT
         !.dbg.req.type = IF p.name = "c" THEN "DREQ_SET_CONTINUE_THREAD"
                          ELSE "DREQ_SET_QUERY_THREAD",
         !.dbg.req.target = p.tid], 1)
  ELSE IF request = "q" THEN query(x, p)
  ELSE IF request = "Q" THEN set(x, p, ub)
  ELSE IF ~x.dbg.non_stop THEN DbgResult(DFatal(x), 0)
  ELSE IF request = INTERRUPT_CHAR
  THEN DbgResult([x EXCEPT !.dbg.req.type = "DREQ_INTERRUPT"], 1)
  ELSE IF request = "g"
  THEN DbgResult([x EXCEPT !.dbg.req.type = "DREQ_GET_REGS",
                           !.dbg.req.target = x.dbg.query_thread], 1)
  ELSE IF request \in {"G", "M", "P", "X"}
  THEN DbgResult(write_packet(x, ""), 0)
  ELSE IF request = "k" THEN DbgResult(DExit(write_packet(x, "OK")), 0)
  ELSE IF request = "m"
  THEN DbgResult([x EXCEPT !.dbg.req.type = "DREQ_GET_MEM",
                           !.dbg.req.target = x.dbg.query_thread], 1)
  ELSE IF request = "p"
  THEN DbgResult([x EXCEPT !.dbg.req.type = "DREQ_GET_REG",
                           !.dbg.req.target = x.dbg.query_thread], 1)
  ELSE IF request \in {"z", "Z"}
  THEN IF p.name \notin DOMAIN WatchTypes
       THEN DbgResult(write_packet(x, ""), 0)
       ELSE DbgResult([x EXCEPT !.dbg.req.type =
              (IF request = "Z" THEN "DREQ_SET_" ELSE "DREQ_REMOVE_")
                \o WatchTypes[p.name]], 1)
  ELSE IF request = "T"
  THEN DbgResult([x EXCEPT !.dbg.req.type = "DREQ_GET_IS_THREAD_ALIVE",
                           !.dbg.req.target = p.tid], 1)
  ELSE IF request = "v" THEN process_vpacket(x, p, stale)
  ELSE IF request = "?"
  THEN DbgResult([x EXCEPT !.dbg.req.type = "DREQ_GET_STOP_REASON",
                           !.dbg.req.target = x.dbg.query_thread], 1)
  ELSE DbgResult(write_packet(x, ""), 0)

(* process_packet(): the packet first in the buffer.  What is erased from  *)
(* the buffer is what precedes the end of the packet. *)
process_packet(x, stale, ub) ==
  LET head == Head(x.dbg.inbuf)
      p == IF head.c = INTERRUPT_CHAR THEN InterruptPkt ELSE head.p
      x0 == [x EXCEPT !.gdb.last = [p |-> p, ret |-> 0, replies |-> 0,
                                    non_stop |-> x.dbg.non_stop]]
  IN
  Then(process_packet_switch(x0, p, stale, ub), LAMBDA r :
    IF DStopped(r.x) THEN DbgResult(r.x, 0)
    ELSE
      Then([r.x EXCEPT
              !.dbg.inbuf = SubSeq(@, IF head.c = INTERRUPT_CHAR THEN 2
                                      ELSE packetend(@), Len(@)),
              !.gdb.last.ret = r.ret,
              !.gdb.req_n = IF r.ret # 0 THEN r.x.gdb.n ELSE @], LAMBDA x1 :
      DbgResult(IF r.ret = 0 THEN consume_request(x1) ELSE x1, r.ret)))

DbgReturns(x, nonblocking) ==
  [x EXCEPT !.gdb.pc = "idle", !.gdb.ret = x.dbg.req,
            !.gdb.ret_n = x.gdb.req_n, !.gdb.nonblocking = nonblocking]

(* dbg_get_request() up to its loop. *)
dbg_get_request(x) ==
  IF request_needs_immediate_response(x.dbg.req) THEN DAbort(x)
  ELSE LET r == sniff_packet(x) IN
       IF r.ret # 0 /\ dbg_is_resume_request(r.x.dbg.req)
       THEN DbgReturns(r.x, TRUE)
       ELSE [r.x EXCEPT !.gdb.pc = "read_packet"]

(* The loop of dbg_get_request() that returns after every packet. *)
dbg_get_request_loop_returns(x, stale, ub) ==
  Then(process_packet(read_packet(x), stale, ub), LAMBDA r :
    IF DStopped(r.x) THEN r.x
    ELSE DbgReturns([r.x EXCEPT !.gdb.req_n = r.x.gdb.n], FALSE))

(* One turn of the loop of dbg_get_request(), the buffer holding a packet. *)
dbg_get_request_loop(x, stale, ub) ==
  Then(process_packet(read_packet(x), stale, ub), LAMBDA r :
    IF DStopped(r.x) THEN r.x
    ELSE IF r.ret # 0 THEN DbgReturns(r.x, FALSE)
    ELSE r.x)

dbg_notify_exit_code(x, code) ==
  IF ~(dbg_is_resume_request(x.dbg.req) \/ x.dbg.req.type = "DREQ_INTERRUPT")
  THEN DAbort(x)
  ELSE consume_request(write_packet(x, "W" \o Hex02(code)))

dbg_notify_exit_signal(x, sig) ==
  IF ~(dbg_is_resume_request(x.dbg.req) \/ x.dbg.req.type = "DREQ_INTERRUPT")
  THEN DAbort(x)
  ELSE consume_request(write_packet(x, "X" \o Hex02(sig)))

(* dbg_notify_stop() that leaves the request current. *)
dbg_notify_stop_keeps_request(x, thread, sig) ==
  IF ~x.dbg.non_stop THEN DAbort(x)
  ELSE IF ~(dbg_is_resume_request(x.dbg.req)
            \/ x.dbg.req.type = "DREQ_INTERRUPT")
  THEN DAbort(x)
  ELSE Then(send_stop_reply_packet(x, TRUE, "Stop:", thread, sig), LAMBDA x1 :
         IF DStopped(x1) THEN x1 ELSE write_flush(x1))

dbg_notify_stop(x, thread, sig) ==
  IF ~x.dbg.non_stop THEN DAbort(x)
  ELSE IF ~(dbg_is_resume_request(x.dbg.req)
            \/ x.dbg.req.type = "DREQ_INTERRUPT")
  THEN DAbort(x)
  ELSE Then(send_stop_reply_packet(x, TRUE, "Stop:", thread, sig), LAMBDA x1 :
         IF DStopped(x1) THEN x1 ELSE consume_request(x1))

dbg_reply_select_thread(x, ok) ==
  LET x1 == IF ok /\ x.dbg.req.type = "DREQ_SET_CONTINUE_THREAD"
            THEN [x EXCEPT !.dbg.resume_thread = x.dbg.req.target]
            ELSE IF ok /\ x.dbg.req.type = "DREQ_SET_QUERY_THREAD"
            THEN [x EXCEPT !.dbg.query_thread = x.dbg.req.target]
            ELSE x
  IN consume_request(write_packet(x1, IF ok THEN "OK" ELSE "E01"))

(* The dbg_reply_*() function of the current request, each of which        *)
(* asserts the type of the request, writes its packet and consumes the     *)
(* request; the values of registers and memory are left out. *)
dbg_reply(x, thread, ok) ==
  LET type == x.dbg.req.type IN
  IF type \in {"DREQ_SET_CONTINUE_THREAD", "DREQ_SET_QUERY_THREAD"}
  THEN dbg_reply_select_thread(x, ok)
  ELSE IF type = "DREQ_GET_CURRENT_THREAD"
  THEN consume_request(write_packet(x, "QC" \o Hex02(thread)))
  ELSE IF type = "DREQ_GET_THREAD_LIST"
  THEN consume_request(write_packet(x, "m" \o Hex02(thread)))
  ELSE IF type = "DREQ_GET_IS_THREAD_ALIVE"
  THEN consume_request(write_packet(x, IF ok THEN "OK" ELSE "E01"))
  ELSE IF type = "DREQ_GET_STOP_REASON"
  THEN consume_request(send_stop_reply_packet(x, FALSE, "", thread, SIGTRAP))
  ELSE IF type \in {"DREQ_GET_REGS", "DREQ_GET_REG"}
  THEN consume_request(write_packet(x, "xxxxxxxx"))
  ELSE IF type = "DREQ_GET_MEM"
  THEN consume_request(write_packet(x, ""))
  ELSE IF type \in { k \o WatchTypes[n] :
                       k \in {"DREQ_SET_", "DREQ_REMOVE_"},
                       n \in DOMAIN WatchTypes }
  THEN consume_request(write_packet(x, IF ok THEN "OK" ELSE ""))
  ELSE DAbort(x)

----------------------------------------------------------------------------
(* The initial state: no task has been spawned. *)

InitWith(input) ==
  /\ recording \in BOOLEAN
  /\ alive = {}
  /\ wait_status = [t \in Tids |-> 0]
  /\ stashed_wait_status = [t \in Tids |-> 0]
  /\ stashed_si = [t \in Tids |-> NoSi]
  /\ registers = [t \in Tids |-> 0]
  /\ registers_known = [t \in Tids |-> FALSE]
  /\ extra_registers = [t \in Tids |-> 0]
  /\ extra_registers_known = [t \in Tids |-> FALSE]
  /\ unstable = [t \in Tids |-> FALSE]
  /\ succ_event_counter = [t \in Tids |-> 0]
  /\ rbcs = [t \in Tids |-> 0]
  /\ pending_events = [t \in Tids |-> << >>]
  /\ blocked_sigs = [t \in Tids |-> 0]
  /\ syscallbuf_hdr = [t \in Tids |-> NullHdr]
  /\ flushed_syscallbuf = [t \in Tids |-> 0]
  /\ delay_syscallbuf_reset = [t \in Tids |-> 0]
  /\ delay_syscallbuf_flush = [t \in Tids |-> 0]
  /\ trace = << >>
  /\ breakpoints = [t \in Tids |-> FALSE]
  /\ locals = NoFrame
  /\ hpc_started = [t \in Tids |-> FALSE]
  /\ hpc_fd = [t \in Tids |-> 0]
  /\ sample_period = [t \in Tids |-> 0]
  /\ waiter = 0
  /\ waiter_was_interrupted = FALSE
  /\ alarm_armed = FALSE
  /\ pc = "idle"
  /\ cur = 0
  /\ cont = "none"
  /\ ret = NoRet
  /\ kstate = [t \in Tids |-> "none"]
  /\ kstatus = [t \in Tids |-> 0]
  /\ ksi = [t \in Tids |-> NoSi]
  /\ kregs = [t \in Tids |-> 0]
  /\ kxregs = [t \in Tids |-> 0]
  /\ kintr = [t \in Tids |-> FALSE]
  /\ kctr = [t \in Tids |-> 0]
  /\ kdebugreg = [t \in Tids |-> NoDebugRegs]
  /\ kowner = [t \in Tids |-> 0]
  /\ sighandlers = [t \in Tids |-> 0]
  /\ sighandler_tables = [i \in TableIds |-> DefaultTable]
  /\ tg = [t \in Tids |-> 0]
  /\ tg_task_set = [i \in Tids |-> {}]
  /\ as = [t \in Tids |-> 0]
  /\ as_task_set = [i \in AsIds |-> {}]
  /\ tid_futex = [t \in Tids |-> 0]
  /\ kfutex = [t \in Tids |-> 0]
  /\ kenabled = [t \in Tids |-> FALSE]
  /\ mem_fd = [i \in AsIds |-> -1]
  /\ kmem = [i \in AsIds |-> Mem0]
  /\ dbg = Dbg0
  /\ gdb = Gdb0
  /\ open_fds = {0, 1, 2}
  /\ g = [G0 EXCEPT !.input = input]

Init == InitWith(G0.input)

(* The state a call of the driver starts from.  History that describes    *)
(* the previous call (the stash that the pop_stash_sig() just returned    *)
(* had popped) is forgotten. *)
Cur ==
  LET s == [St EXCEPT !.g.did_reset = {},
                      !.g.expect = [t \in Tids |-> 0],
                      !.g.fresh = [t \in Tids |-> 0],
                      !.g.pre = NoPre,
                      !.g.waited = 0,
                      !.g.waitpid_res = "none",
                      !.g.had_intr = FALSE,
                      !.g.had_intr_task = 0,
                      !.g.had_watch = FALSE,
                      !.g.resumed = NoResume,
                      !.g.exec_old = G0.exec_old,
                      !.g.peeked = {},
                      !.g.reopens = 0,
                      !.g.alarm_saw = NoAlarm,
                      !.g.alarm_did = 0,
                      !.g.late = "no",
                      !.g.null_store = FALSE]
  IN IF ret.op = "pop_stash_sig"
     THEN [s EXCEPT !.g.pop_after[ret.t] = "none",
                    !.g.pop_prev[ret.t] = 0,
                    !.g.stash_status[ret.t] = 0,
                    !.g.stash_si[ret.t] = NoSi]
     ELSE s
Idle(t) == pc = "idle" /\ t \in alive

----------------------------------------------------------------------------
(* The tracee and the kernel. *)

(* A running tracee stops by itself with status st; its siginfo and        *)
(* registers at the stop are code, r and xr. *)
TraceeStop(t, st, code, r, xr) ==
  /\ pc # "aborted"
  /\ kstate[t] = "running"
  /\ Commit([St EXCEPT
       !.kstate[t] = "stopped",
       !.kstatus[t] = st,
       !.ksi[t] = [si_signo |-> WSTOPSIG(st) % 128, si_fd |-> 0,
                   si_code |-> code],
       !.kregs[t] = r,
       !.kxregs[t] = xr])

(* The counter of task c, armed with a sample period, has counted that     *)
(* many branches: the kernel sends the signal of the counter's fd to the   *)
(* fd's owner, which stops with it unless it blocks the signal.  The       *)
(* siginfo names the fd. *)
TraceeOverflow(c) ==
  /\ pc # "aborted"
  /\ kstate[c] = "running"
  /\ hpc_started[c]
  /\ kenabled[c]
  /\ sample_period[c] > 0
  /\ kctr[c] >= sample_period[c]
  /\ kowner[c] # 0
  /\ kstate[kowner[c]] = "running"
  /\ ~is_sig_blocked(St, kowner[c], HPC_TIME_SLICE_SIGNAL)
  /\ Commit([St EXCEPT
       !.kstate[kowner[c]] = "stopped",
       !.kstatus[kowner[c]] = TimeSliceStatus,
       !.ksi[kowner[c]] = [si_signo |-> HPC_TIME_SLICE_SIGNAL,
                           si_fd |-> hpc_fd[c], si_code |-> POLL_IN]])

(* A running tracee executes the instruction at its ip and stops with    *)
(* SIGTRAP, its registers then being r: the instruction is the breakpoint  *)
(* if one is set there, and the original instruction otherwise. *)
TraceeExecutes(t, r) ==
  /\ pc # "aborted"
  /\ kstate[t] = "running"
  /\ Commit([St EXCEPT
       !.kstate[t] = "stopped",
       !.kstatus[t] = StopStatus(0, SIGTRAP),
       !.ksi[t] = [si_signo |-> SIGTRAP, si_fd |-> 0, si_code |-> 0],
       !.kregs[t] = r,
       !.g.insn_executed[t] = @ \/ ~breakpoints[t]])

(* A running tracee takes the pending PTRACE_INTERRUPT. *)
TraceeInterruptStop(t, st) ==
  /\ pc # "aborted"
  /\ kstate[t] = "running"
  /\ kintr[t]
  /\ Commit([St EXCEPT
       !.kstate[t] = "stopped",
       !.kstatus[t] = st,
       !.kintr[t] = FALSE,
       !.ksi[t] = [si_signo |-> SIGTRAP, si_fd |-> 0,
                   si_code |-> PTRACE_EVENT_STOP * 256 + SIGTRAP]])

(* A tracee that runs, traced or let go, ends with status st.  The kernel  *)
(* clears the word at its cleartid address unless a signal ended it. *)
TraceeExit(t, st) ==
  /\ pc # "aborted"
  /\ kstate[t] \in {"running", "detached"}
  /\ Commit([St EXCEPT
       !.kstate[t] = "stopped",
       !.kstatus[t] = st,
       !.kfutex[t] = IF WIFEXITED(st) THEN 0 ELSE @])

(* A running tracee retires a conditional branch, which its counter counts. *)
TraceeRetire(t) ==
  /\ pc # "aborted"
  /\ kstate[t] = "running"
  /\ hpc_started[t]
  /\ kenabled[t]
  /\ rbcs[t] + kctr[t] < MaxRbc
  /\ Commit([St EXCEPT !.kctr[t] = @ + 1])

(* A running tracee whose syscall buffer is not locked buffers a syscall:  *)
(* it appends a record of n bytes to the buffer. *)
TraceeBuffers(t, n) ==
  /\ pc # "aborted"
  /\ kstate[t] = "running"
  /\ syscallbuf_hdr[t].mapped
  /\ ~syscallbuf_hdr[t].locked
  /\ syscallbuf_hdr[t].num_rec_bytes + n <= MaxRecBytes
  /\ Commit([St EXCEPT !.syscallbuf_hdr[t].num_rec_bytes = @ + n])

(* The alarm(3) set by wait() expires and the SIGALRM handler runs. *)
HandleRunaway ==
  /\ pc # "aborted"
  /\ alarm_armed
  /\ Commit(handle_runaway([St EXCEPT !.alarm_armed = FALSE]))

(* waitpid() returns in the blocked wait(), which runs to its end, and so *)
(* does the method that called it. *)
WaitpidReturns(res) ==
  /\ pc = "waitpid"
  /\ res \in WaitpidResults(St, cur)
  /\ Commit(after_wait(wait_return(Cur, res), cont))

(* The same, with the alarm expiring on the way out of wait(). *)
WaitpidReturnsAlarm(res, late) ==
  /\ pc = "waitpid"
  /\ alarm_armed
  /\ res \in WaitpidResults(St, cur)
  /\ LET s == wait_return_alarm(Cur, res, late)
     IN Commit(IF s.pc = "aborted" THEN s ELSE after_wait(s, cont))

----------------------------------------------------------------------------
(* The calls of the driver. *)

Spawn(mask) ==
  /\ pc = "idle"
  /\ alive = {}
  /\ kstate[1] = "none"
  /\ Commit(spawn(Cur, mask))

Clone(parent, child, flags) ==
  /\ Idle(parent)
  /\ child \notin alive
  /\ kstate[child] = "none"
  /\ Commit(clone(Cur, parent, child, flags))

UpdateSigaction(t, sig, syscall_result, new_sigaction, sa) ==
  /\ Idle(t)
  /\ Commit(update_sigaction(Cur, t, sig, syscall_result, new_sigaction, sa))

SignalDelivered(t, sig) == Idle(t) /\ Commit(signal_delivered(Cur, t, sig))

PostExec(t, has_file) == Idle(t) /\ Commit(post_exec(Cur, t, has_file))

DestabilizeTaskGroup(t) ==
  Idle(t) /\ Commit(destabilize_task_group(Cur, t))

OpenMemFd(t) ==
  /\ Idle(t)
  /\ InPtraceStop(St, t)
  /\ Commit(Returns(open_mem_fd(Cur, t), "open_mem_fd", t, 0))

WriteBytesPtrace(t, addr, buf) ==
  /\ Idle(t)
  /\ InPtraceStop(St, t)
  /\ Commit(write_bytes_ptrace(Cur, t, addr, buf))

ReadBytesPtrace(t, addr, buf_size) ==
  /\ Idle(t)
  /\ InPtraceStop(St, t)
  /\ Commit(read_bytes_ptrace(Cur, t, addr, buf_size))

ReadBytesFallible(t, addr, buf_size) ==
  /\ Idle(t)
  /\ InPtraceStop(St, t)
  /\ Commit(read_bytes_fallible(Cur, t, addr, buf_size))

WriteBytesHelper(t, addr, buf) ==
  /\ Idle(t)
  /\ InPtraceStop(St, t)
  /\ Commit(write_bytes_helper(Cur, t, addr, buf))

(* pread64() returns in read_bytes_fallible(); the fd is stale or not. *)
PreadReturns(stale) ==
  /\ pc = "pread"
  /\ stale => g.reopens < MaxReopens
  /\ Commit(pread_return(St, stale))

(* pwrite64() returns in write_bytes_helper(); the fd is stale or not. *)
PwriteReturns(stale) ==
  /\ pc = "pwrite"
  /\ stale => g.reopens < MaxReopens
  /\ Commit(pwrite_return(St, stale))

StopHpc(t) ==
  /\ Idle(t)
  /\ Commit(Returns(stop_hpc(Cur, t), "stop_hpc", t, 0))

Kill(t, st) ==
  /\ Idle(t)
  /\ Commit(kill(Cur, t, st))

DestroyTask(t) ==
  /\ Idle(t)
  /\ Commit(Task_dtor(Cur, t))

(* waitpid() returns in the loop of the blocked detach_and_reap(). *)
ReapReturns(res) ==
  /\ pc = "reap"
  /\ res \in ReapResults(St, cur)
  /\ Commit(reap_return(St, res))

(* The blocked futex_wait() reads 0 at the cleartid address. *)
FutexWaitReturns ==
  /\ pc = "futex_wait"
  /\ kfutex[cur] = 0
  /\ Commit(futex_wait_return(St))

CopyState(t, from) ==
  /\ Idle(t) /\ Idle(from)
  /\ g.fresh[t] = from
  /\ Commit(copy_state(Cur, t, from))

InitBuffers(t, syscallbuf_enabled, ub) ==
  Idle(t) /\ Commit(init_buffers(Cur, t, syscallbuf_enabled, ub))

UpdateSigmask(t, how, setp, failed, sigset) ==
  Idle(t) /\ Commit(update_sigmask(Cur, t, how, setp, failed, sigset))

Wait(t) == Idle(t) /\ Commit(wait_enter(Cur, t, "wait"))

TryWait(t) == Idle(t) /\ Commit(try_wait(Cur, t))

ResumeExecution(t, how, wait_how, rbc_period) ==
  /\ Idle(t)
  /\ Commit(resume_execution(Cur, t, how, wait_how, 0, rbc_period))

ForceStatus(t, status) ==
  /\ Idle(t)
  /\ Commit(Returns(force_status(Cur, t, status), "force_status", t, status))

FinishEmulatedSyscall(t, known_idempotent) ==
  /\ Idle(t)
  /\ Commit(finish_emulated_syscall(Cur, t, known_idempotent))

SetDebugRegs(t, dregs, fail_at) ==
  /\ Idle(t)
  /\ fail_at <= (IF Len(dregs) > NUM_X86_WATCHPOINTS THEN 0 ELSE Len(dregs) + 1)
  /\ Commit(set_debug_regs(Cur, t, dregs, fail_at))

StashSig(t) == Idle(t) /\ Commit(stash_sig(Cur, t))

PopStashSig(t) == Idle(t) /\ Commit(pop_stash_sig(Cur, t))

Regs(t) == Idle(t) /\ Commit(regs(Cur, t))

SetRegs(t, r) == Idle(t) /\ Commit(set_regs(Cur, t, r))

ExtraRegs(t) == Idle(t) /\ Commit(extra_regs(Cur, t))

SetExtraRegs(t, r) == Idle(t) /\ Commit(set_extra_regs(Cur, t, r))

RbcCount(t) == Idle(t) /\ rbcs[t] <= MaxRbc /\ Commit(rbc_count(Cur, t))

ResetHpc(t, val) ==
  /\ Idle(t)
  /\ Commit(Returns(reset_hpc(Cur, t, val), "reset_hpc", t, val))

LastWritten(s) == IF Len(s.trace) = 0 THEN 0 ELSE s.trace[Len(s.trace)]

RecordEvent(t, e) ==
  /\ Idle(t)
  /\ recording
  /\ Len(trace) < MaxTrace
  /\ LET s == record_event(Cur, t, e)
     IN Commit(Done(s, "record_event", t, LastWritten(s)))

PushEvent(t, e) ==
  /\ Idle(t)
  /\ Len(pending_events[t]) <= MaxEvents
  /\ Commit(Returns(push_event(Cur, t, e), "push_event", t, e))

(* back() and pop_back() of an empty deque are undefined: the call either *)
(* crashes or leaves the deque empty, as ub says. *)
PopEvent(t, expected_type, ub) ==
  /\ Idle(t)
  /\ Commit(IF Len(pending_events[t]) = 0
            THEN IF ub = "crash" THEN Abort(Cur)
                 ELSE Returns(Cur, "pop_event", t, expected_type)
            ELSE Done(pop_event(Cur, t, expected_type), "pop_event", t,
                      expected_type))

(* The recorder sets the two delay flags, which are public fields. *)
SetDelay(t, reset, flush) ==
  /\ Idle(t)
  /\ Commit(Returns([Cur EXCEPT !.delay_syscallbuf_reset[t] = reset,
                                !.delay_syscallbuf_flush[t] = flush],
                    "set_delay", t, reset + 2 * flush))

(* maybe_flush_syscallbuf() and record_event() called while the trace is  *)
(* shorter than max frames and blobs. *)
FlushUpTo(t, max) ==
  /\ Idle(t)
  /\ recording
  /\ Len(trace) < max
  /\ Commit(Done(maybe_flush_syscallbuf(Cur, t),
                 "maybe_flush_syscallbuf", t, 0))

RecordEventUpTo(t, e, max) ==
  /\ Idle(t)
  /\ recording
  /\ Len(trace) < max
  /\ LET s == record_event(Cur, t, e)
     IN Commit(Done(s, "record_event", t, 0))

MaybeFlushSyscallbuf(t) ==
  /\ Idle(t)
  /\ recording
  /\ Len(trace) < MaxTrace
  /\ LET s == [Cur EXCEPT !.g.pre =
                 [b |-> syscallbuf_hdr[t].num_rec_bytes,
                  delay |-> \/ delay_syscallbuf_reset[t] # 0
                            \/ delay_syscallbuf_flush[t] # 0,
                  flushing |-> "EV_SYSCALLBUF_FLUSH" = ev(St, t).type,
                  events |-> pending_events[t],
                  written |-> Len(trace),
                  flushed |-> flushed_syscallbuf[t],
                  delay_reset |-> delay_syscallbuf_reset[t] # 0,
                  delay_flush |-> delay_syscallbuf_flush[t] # 0]]
     IN Commit(Done(maybe_flush_syscallbuf(s, t),
                    "maybe_flush_syscallbuf", t, 0))

----------------------------------------------------------------------------
(* The stashed signal: stash_sig, pop_stash_sig and force_status between   *)
(* the waits and resumes of one task. *)

StashStatuses == {StopStatus(0, SIGCHLD), StopStatus(0, SIGSTOP)}

NextStash ==
  \/ Spawn(0)
  \/ \E res \in {"status", "EINTR", "ECHILD"} : WaitpidReturns(res)
  \/ HandleRunaway
  \/ \E st \in StashStatuses, code \in SiCodes : TraceeStop(1, st, code, 0, 0)
  \/ TraceeInterruptStop(1, StopStatus(PTRACE_EVENT_STOP, SIGTRAP))
  \/ Wait(1)
  \/ TryWait(1)
  \/ \E w \in WaitRequest : ResumeExecution(1, "RESUME_CONT", w, 0)
  \/ \E status \in {0, StopStatus(0, SIGCHLD)} : ForceStatus(1, status)
  \/ StashSig(1)
  \/ PopStashSig(1)

SpecStash == Init /\ [][NextStash]_vars

(* C1: when pop_stash_sig() directly follows stash_sig() on a task, with   *)
(* at most force_status() calls in between, it leaves wait_status equal to *)
(* the wait status at the time of the stash, returns the siginfo the       *)
(* tracee had at the time of the stash, and leaves no signal stashed. *)
C1_StashPopRestores ==
  \A t \in Tids :
    (ret.op = "pop_stash_sig" /\ ret.t = t /\ g.pop_after[t] = "stash_sig")
      => /\ wait_status[t] = g.stash_status[t]
         /\ ret.val = g.stash_si[t]
         /\ ~has_stashed_sig(St, t)

(* A pop that restored a SIGCHLD stop, with its SI_KERNEL siginfo, over a  *)
(* wait status that force_status() had set to 0 after the stash. *)
C1_Witness ==
  /\ ret.op = "pop_stash_sig" /\ ret.t = 1
  /\ g.pop_after[1] = "stash_sig"
  /\ g.pop_prev[1] = 0
  /\ wait_status[1] = StopStatus(0, SIGCHLD)
  /\ ret.val = [si_signo |-> SIGCHLD, si_fd |-> 0, si_code |-> 128]

(* C2: a signal stashed by stash_sig() stays stashed, with the wait status *)
(* and the siginfo of the time of the stash, until pop_stash_sig() takes   *)
(* it: no wait(), try_wait() or resume_execution() replaces or drops it. *)
C2_StashKeptUntilPop ==
  \A t \in Tids :
    g.stash_by[t] \in {"stash_sig", "stash_sig+"}
      => /\ has_stashed_sig(St, t)
         /\ stashed_wait_status[t] = g.stash_status[t]
         /\ stashed_si[t] = g.stash_si[t]

----------------------------------------------------------------------------
(* The branch count: the counter, rbc_count(), record_event() and          *)
(* reset_hpc() between the waits and resumes of one task. *)

NextRbc ==
  \/ Spawn(0)
  \/ \E res \in {"status", "EINTR"} : WaitpidReturns(res)
  \/ TraceeStop(1, StopStatus(0, SIGSTOP), 0, 0, 0)
  \/ TraceeRetire(1)
  \/ Wait(1)
  \/ \E w \in WaitRequest : ResumeExecution(1, "RESUME_CONT", w, 0)
  \/ RbcCount(1)
  \/ ResetHpc(1, max_rbc)
  \/ \E e \in {Event("EV_SYSCALL", HAS_EXEC_INFO), Event("EV_NOOP", NO_EXEC_INFO)} :
       RecordEvent(1, e)

SpecRbc == Init /\ [][NextRbc]_vars

(* C3: every value rbc_count() returns for a task is at least the value it *)
(* returned before for that task, whatever resume_execution, wait,         *)
(* record_event, reset_hpc and rbc_count calls are made; and the value     *)
(* read from the counter gets smaller only in a step that did reset_hpc(). *)
C3_RbcCountMonotonic ==
  [][\A t \in Tids :
       /\ (ret'.op = "rbc_count" /\ ret'.t = t)
            => ret'.val >= g.last_rbc_ret[t]
       /\ (pc' # "aborted" /\ read_rbc(St', t) < read_rbc(St, t))
            => t \in g'.did_reset]_vars

(* rbc_count() returned 2 after it added a reading and reset the counter,  *)
(* and a frame had been recorded when the count was 1. *)
C3_Witness ==
  /\ ret.op = "rbc_count" /\ ret.t = 1 /\ ret.val = 2
  /\ 1 \in g.did_reset
  /\ read_rbc(St, 1) = 0
  /\ \E i \in 1 .. Len(trace) :
       trace[i].ev.has_exec_info /\ trace[i].exec.rbc = 1

(* C4: the rbc of a frame that record_event() writes for an event with     *)
(* exec info is the rbc of the task's previous such frame (0 if there is   *)
(* none) plus the sum of the counter readings taken since, each branch the *)
(* counter counted entering one reading only. *)
C4_FrameRbc ==
  \A t \in Tids :
    (ret.op = "record_event" /\ ret.t = t /\ ret.val.ev.has_exec_info)
      => ret.val.exec.rbc = g.expect[t]

(* The second frame with exec info of a task: the first had rbc 1, and     *)
(* since then rbc_count() took a reading of 1 and record_event() one of 1. *)
C4_Witness ==
  /\ ret.op = "record_event" /\ ret.t = 1 /\ ret.val.ev.has_exec_info
  /\ ret.val.exec.rbc = 3
  /\ g.last_rbc_ret[1] = 2
  /\ \E i \in 1 .. Len(trace) - 1 :
       trace[i].ev.has_exec_info /\ trace[i].exec.rbc = 1

----------------------------------------------------------------------------
(* The signal mask and the lock of the syscall buffer: init_buffers(),     *)
(* update_sigmask(), clone and copy_state() on two tasks. *)

NextSigmask ==
  \/ \E mask \in Masks : Spawn(mask)
  \/ \E res \in {"status", "EINTR"} : WaitpidReturns(res)
  \/ \E t \in Tids : TraceeStop(t, StopStatus(0, SIGSTOP), 0, 0, 0)
  \/ Clone(1, 2, {})
  \/ CopyState(2, 1)
  \/ \E t \in Tids, enabled \in BOOLEAN, ub \in {"crash", "skip"} :
       InitBuffers(t, enabled, ub)
  \/ \E t \in Tids, how \in 0 .. 3, setp \in BOOLEAN, failed \in BOOLEAN,
        sigset \in Masks :
       UpdateSigmask(t, how, setp, failed, sigset)

SpecSigmask == Init /\ [][NextSigmask]_vars

(* C5: whenever a task has a syscall buffer mapped and the desched signal  *)
(* is in its blocked_sigs, the locked flag of the buffer's header is set:  *)
(* after init_buffers(), every update_sigmask(), clone and copy_state(). *)
C5_LockedWhileDeschedBlocked ==
  \A t \in Tids :
    (t \in alive /\ syscallbuf_hdr[t].mapped /\ is_desched_sig_blocked(St, t))
      => syscallbuf_hdr[t].locked

(* A clone child that copy_state() gave the buffer and the mask of its    *)
(* parent, which has the desched signal blocked. *)
C5_Witness ==
  /\ ret.op = "copy_state" /\ ret.t = 2
  /\ syscallbuf_hdr[2].mapped /\ syscallbuf_hdr[2].locked
  /\ blocked_sigs[2] = MaskOf({SIGCHLD, SIGSYS})
  /\ blocked_sigs[1] = blocked_sigs[2]

----------------------------------------------------------------------------
(* Flushing the syscall buffer: the tracee buffers records, and the        *)
(* recorder flushes them by maybe_flush_syscallbuf() or record_event(). *)

NextFlush ==
  \/ Spawn(0)
  \/ WaitpidReturns("status")
  \/ TraceeStop(1, StopStatus(0, SIGSTOP), 0, 0, 0)
  \/ \E n \in 1 .. MaxRecBytes : TraceeBuffers(1, n)
  \/ ResumeExecution(1, "RESUME_SYSCALL", "RESUME_WAIT", 0)
  \/ InitBuffers(1, TRUE, "crash")
  \/ PushEvent(1, Event("EV_SYSCALL", HAS_EXEC_INFO))
  \/ \E ub \in {"crash", "skip"} : PopEvent(1, "EV_SYSCALL", ub)
  \/ \E reset \in {0, 1}, flush \in {0, 1} : SetDelay(1, reset, flush)
  \/ MaybeFlushSyscallbuf(1)
  \/ RecordEvent(1, Event("EV_NOOP", NO_EXEC_INFO))

SpecFlush == Init /\ [][NextFlush]_vars

(* C6: a call of maybe_flush_syscallbuf() that finds B > 0 bytes of        *)
(* records in the buffer and no delay flag set writes exactly two things,  *)
(* one raw-data blob of B + sizeof(header) bytes and then one              *)
(* EV_SYSCALLBUF_FLUSH frame (the calls nested in record_local() and       *)
(* record_event() write nothing), leaves the event stack as it found it,   *)
(* and leaves num_rec_bytes 0. *)
C6_FlushOnce ==
  \A t \in Tids :
    (/\ ret.op = "maybe_flush_syscallbuf" /\ ret.t = t
     /\ g.pre.b > 0 /\ ~g.pre.delay /\ ~g.pre.flushing)
      => /\ Len(trace) = g.pre.written + 2
         /\ trace[Len(trace) - 1].kind = "raw_data"
         /\ trace[Len(trace) - 1].len = g.pre.b + SizeofHdr
         /\ trace[Len(trace) - 1].ev.type = "EV_SYSCALLBUF_FLUSH"
         /\ trace[Len(trace)].kind = "frame"
         /\ trace[Len(trace)].ev = Event("EV_SYSCALLBUF_FLUSH", NO_EXEC_INFO)
         /\ pending_events[t] = g.pre.events
         /\ syscallbuf_hdr[t].num_rec_bytes = 0

(* A flush of 2 bytes of records, made with a syscall event on the event   *)
(* stack and a frame already in the trace. *)
C6_Witness ==
  /\ ret.op = "maybe_flush_syscallbuf" /\ ret.t = 1
  /\ g.pre.b = 2 /\ ~g.pre.delay /\ ~g.pre.flushing
  /\ g.pre.written = 1
  /\ Len(trace) = 3
  /\ trace[2].len = 2 + SizeofHdr
  /\ pending_events[1] = << Sentinel, Event("EV_SYSCALL", HAS_EXEC_INFO) >>
  /\ flushed_syscallbuf[1] = 1

(* C32: a call of maybe_flush_syscallbuf() made while                      *)
(* delay_syscallbuf_flush is set writes nothing to the trace and leaves    *)
(* num_rec_bytes and flushed_syscallbuf as they were, whatever the count   *)
(* of record bytes is; a call made while only delay_syscallbuf_reset is    *)
(* set, with records in the buffer to flush, writes the blob and the       *)
(* EV_SYSCALLBUF_FLUSH frame and sets flushed_syscallbuf, and leaves       *)
(* num_rec_bytes as it was. *)
C32_DelayFlags ==
  \A t \in Tids :
    (ret.op = "maybe_flush_syscallbuf" /\ ret.t = t)
      => /\ g.pre.delay_flush
              => /\ Len(trace) = g.pre.written
                 /\ syscallbuf_hdr[t].num_rec_bytes = g.pre.b
                 /\ flushed_syscallbuf[t] = g.pre.flushed
         /\ (g.pre.delay_reset /\ ~g.pre.delay_flush
               /\ g.pre.b > 0 /\ ~g.pre.flushing)
              => /\ Len(trace) = g.pre.written + 2
                 /\ trace[Len(trace) - 1].kind = "raw_data"
                 /\ trace[Len(trace) - 1].len = g.pre.b + SizeofHdr
                 /\ trace[Len(trace)].kind = "frame"
                 /\ trace[Len(trace)].ev =
                      Event("EV_SYSCALLBUF_FLUSH", NO_EXEC_INFO)
                 /\ flushed_syscallbuf[t] = 1
                 /\ syscallbuf_hdr[t].num_rec_bytes = g.pre.b

(* A flush of 2 bytes of records made with only delay_syscallbuf_reset     *)
(* set, on a task that had not flushed before. *)
C32_Witness ==
  /\ ret.op = "maybe_flush_syscallbuf" /\ ret.t = 1
  /\ g.pre.delay_reset /\ ~g.pre.delay_flush
  /\ g.pre.b = 2 /\ g.pre.flushed = 0
  /\ Len(trace) = g.pre.written + 2
  /\ flushed_syscallbuf[1] = 1
  /\ syscallbuf_hdr[1].num_rec_bytes = 2

----------------------------------------------------------------------------
(* Flushing again: several flushes of one buffer, by                       *)
(* maybe_flush_syscallbuf() and by record_event(), with the tracee adding  *)
(* records in between or not. *)

MaxFlushTrace == 5   \* calls write while the trace is shorter

NextReflush ==
  \/ Spawn(0)
  \/ WaitpidReturns("status")
  \/ TraceeStop(1, StopStatus(0, SIGSTOP), 0, 0, 0)
  \/ \E n \in 1 .. MaxRecBytes : TraceeBuffers(1, n)
  \/ ResumeExecution(1, "RESUME_SYSCALL", "RESUME_WAIT", 0)
  \/ InitBuffers(1, TRUE, "crash")
  \/ \E reset \in {0, 1}, flush \in {0, 1} : SetDelay(1, reset, flush)
  \/ FlushUpTo(1, MaxFlushTrace)
  \/ RecordEventUpTo(1, Event("EV_NOOP", NO_EXEC_INFO), MaxFlushTrace)

SpecReflush == Init /\ [][NextReflush]_vars

(* A step that writes the blob of an EV_SYSCALLBUF_FLUSH of task t. *)
FlushStep(t) ==
  /\ Len(trace') > Len(trace)
  /\ \E i \in Len(trace) + 1 .. Len(trace') :
       /\ trace'[i].kind = "raw_data"
       /\ trace'[i].tid = t
       /\ trace'[i].ev.type = "EV_SYSCALLBUF_FLUSH"

(* The length of the blob that the step writes, without the header. *)
FlushedBytes(t) ==
  LET i == CHOOSE i \in Len(trace) + 1 .. Len(trace') :
             trace'[i].kind = "raw_data" /\ trace'[i].tid = t
  IN trace'[i].len - SizeofHdr

(* C40 as stated: a flush writes no record byte that an earlier flush has  *)
(* written, whatever delay_syscallbuf_reset was at the earlier flush. *)
C40_NoRecordFlushedTwice ==
  [][\A t \in Tids : FlushStep(t) => g.in_trace[t] = 0]_vars

(* C40, amended: records that a flush wrote are written again by a later   *)
(* flush only when delay_syscallbuf_reset was set at the earlier flush and *)
(* delay_syscallbuf_flush is clear at the later one; after a flush made    *)
(* with delay_syscallbuf_reset clear the buffer is empty, and a further    *)
(* call writes the records that the tracee has added since and no others,  *)
(* and nothing if there are none. *)
C40_FlushedTwiceOnlyIfKept ==
  /\ [](\A t \in Tids :
         /\ g.in_trace[t] > 0 => g.kept[t]
         /\ g.in_trace[t] <= syscallbuf_hdr[t].num_rec_bytes)
  /\ [][\A t \in Tids : FlushStep(t) =>
          /\ delay_syscallbuf_flush[t] = 0
          /\ g.in_trace[t] > 0 => g.kept[t]
          /\ FlushedBytes(t) = syscallbuf_hdr[t].num_rec_bytes
          /\ ~g.kept[t] => FlushedBytes(t) > 0 /\ g.in_trace[t] = 0]_vars

(* A second flush after one made with delay_syscallbuf_reset clear: the    *)
(* tracee has added 1 byte of records after the first flush of 2 bytes. *)
C40_Witness ==
  /\ ret.op = "maybe_flush_syscallbuf" /\ ret.t = 1
  /\ Len(trace) = 4
  /\ trace[1].kind = "raw_data" /\ trace[1].len = 2 + SizeofHdr
  /\ trace[3].kind = "raw_data" /\ trace[3].len = 1 + SizeofHdr
  /\ ~g.kept[1] /\ g.in_trace[1] = 0
  /\ syscallbuf_hdr[1].num_rec_bytes = 0

----------------------------------------------------------------------------
(* wait(), try_wait() and the alarm: one task that stops by itself, exits, *)
(* or is stopped by the PTRACE_INTERRUPT of the SIGALRM handler. *)

ExitStatus == 0 * 256   \* the wait status of exit(0)

WaitStatuses ==
  { StopStatus(0, SIGCHLD), StopStatus(0, SIGSTOP),
    StopStatus(PTRACE_EVENT_STOP, SIGSTOP),
    StopStatus(PTRACE_EVENT_STOP, SIGTSTP),
    ExitStatus }

NextWait ==
  \/ Spawn(0)
  \/ \E res \in {"status", "EINTR", "ECHILD"} : WaitpidReturns(res)
  \/ HandleRunaway
  \/ \E st \in WaitStatuses : TraceeStop(1, st, 0, 0, 0)
  \/ \E st \in InterruptStatuses : TraceeInterruptStop(1, st)
  \/ Wait(1)
  \/ TryWait(1)
  \/ \E w \in WaitRequest : ResumeExecution(1, "RESUME_CONT", w, 0)

SpecWait == Init /\ [][NextWait]_vars

(* C7: when wait() (alone or in a blocking resume_execution()) has         *)
(* collected a status, the task's wait_status is the status waitpid()      *)
(* reported, except when the alarm handler had issued a PTRACE_INTERRUPT   *)
(* and the status is a PTRACE_EVENT_STOP with stop signal SIGTRAP, SIGSTOP *)
(* or 0: then it is the stop by HPC_TIME_SLICE_SIGNAL, and the stashed     *)
(* siginfo has that signal, the fd of the rbc counter and POLL_IN. *)
C7_RewriteOnlyInterruptStop ==
  \A t \in Tids :
    (/\ ret.op \in {"wait", "resume_execution"} /\ ret.t = t
     /\ g.waited = t /\ g.waitpid_res = "status")
      => IF /\ g.had_intr
            /\ (kstatus[t] \div 65536) % 256 = PTRACE_EVENT_STOP
            /\ (kstatus[t] \div 256) % 256 \in {SIGTRAP, SIGSTOP, 0}
         THEN /\ wait_status[t] = HPC_TIME_SLICE_SIGNAL * 256 + 127
              /\ stashed_si[t] = [si_signo |-> HPC_TIME_SLICE_SIGNAL,
                                  si_fd |-> hpc_fd[t], si_code |-> POLL_IN]
         ELSE wait_status[t] = kstatus[t]

(* The interrupt's stop, rewritten. *)
C7_Witness ==
  /\ ret = Ret("wait", 1, TRUE)
  /\ g.waited = 1 /\ g.waitpid_res = "status" /\ g.had_intr
  /\ kstatus[1] = StopStatus(PTRACE_EVENT_STOP, SIGTRAP)
  /\ wait_status[1] = TimeSliceStatus
  /\ stashed_si[1].si_code = POLL_IN

(* C9: wait() returns false exactly when waitpid() failed with EINTR and   *)
(* true exactly when it collected a status of the task; a wait() that      *)
(* returns false leaves the tracee and its pending stop as they were, for  *)
(* the next wait() to collect; a wait() that returns true has collected    *)
(* the pending stop; and a blocking resume_execution() returns what its    *)
(* wait() returned. *)
C9_WaitResult ==
  [][(/\ pc = "waitpid" /\ pc' = "idle"
      /\ ret'.op \in {"wait", "resume_execution"})
       => /\ ret'.t = cur
          /\ (ret'.val = FALSE) <=> (g'.waitpid_res = "EINTR")
          /\ (ret'.val = TRUE) <=> (g'.waitpid_res = "status")
          /\ ret'.val = FALSE
               => /\ kstate'[cur] = kstate[cur]
                  /\ kstatus'[cur] = kstatus[cur]
          /\ ret'.val = TRUE
               => /\ kstate[cur] = "stopped"
                  /\ kstate'[cur] \in {"reported", "gone"}
                  /\ kstatus'[cur] = kstatus[cur]]_vars

(* A blocking resume_execution() returned false while the stop of the     *)
(* tracee stayed pending. *)
C9_Witness ==
  /\ ret = Ret("resume_execution", 1, FALSE)
  /\ g.waitpid_res = "EINTR"
  /\ kstate[1] = "stopped"
  /\ kstatus[1] = StopStatus(0, SIGCHLD)

----------------------------------------------------------------------------
(* The resumes that Task's own methods make: the loop of spawn(), which   *)
(* resumes the new tracee until it has stopped with SIGSTOP, and           *)
(* Task::clone, which waits for the new child. *)

NextOwn ==
  \/ Spawn(0)
  \/ \E res \in {"status", "EINTR"} : WaitpidReturns(res)
  \/ HandleRunaway
  \/ \E t \in Tids, st \in StashStatuses, code \in SiCodes :
       TraceeStop(t, st, code, 0, 0)
  \/ TraceeInterruptStop(1, StopStatus(PTRACE_EVENT_STOP, SIGTRAP))
  \/ Clone(1, 2, {})

SpecOwn == Init /\ [][NextOwn]_vars

(* C8: a method of Task never resumes a task whose previous resume has    *)
(* not been answered by a wait() or try_wait() that returned true, also    *)
(* when a wait() in between returned false. *)
C8_NoResumeWhileUnwaited == ~g.bad_resume

----------------------------------------------------------------------------
(* The register caches: regs(), set_regs(), extra_regs() and              *)
(* set_extra_regs() between the stops and resumes of one tracee, whose     *)
(* register file differs from stop to stop. *)

NextRegs ==
  \/ Spawn(0)
  \/ \E res \in {"status", "EINTR"} : WaitpidReturns(res)
  \/ \E r \in RegVals, xr \in RegVals :
       TraceeStop(1, StopStatus(0, SIGSTOP), 0, r, xr)
  \/ Wait(1)
  \/ TryWait(1)
  \/ \E how \in ResumeRequest, wait_how \in WaitRequest :
       ResumeExecution(1, how, wait_how, 0)
  \/ Regs(1)
  \/ \E r \in RegVals : SetRegs(1, r)
  \/ ExtraRegs(1)
  \/ \E r \in RegVals : SetExtraRegs(1, r)

SpecRegs == Init /\ [][NextRegs]_vars

(* C10: whenever registers_known is true the cached registers equal the   *)
(* tracee's register file; a regs() that follows set_regs(r) returns r;    *)
(* every resume_execution, in any mode, blocking or not, leaves both       *)
(* caches unknown, so that regs() and extra_regs() return the registers of *)
(* the current stop.  Below, RegsCacheValid is what holds of the caches in  *)
(* every state: a cache marked known equals the tracee's register file     *)
(* and the tracee is not running, and each operation returns with the      *)
(* caches as stated above. *)    
C10_RegsCache ==
  [][ LET RegsCacheValid ==
            /\ \A t \in Tids :
                 /\ registers_known[t] =>
                      registers[t] = kregs[t] /\ kstate[t] # "running"
                 /\ extra_registers_known[t] =>
                      extra_registers[t] = kxregs[t] /\ kstate[t] # "running"
            /\ ret.op = "regs" =>
                 ret.val = kregs[ret.t] /\ registers_known[ret.t]
            /\ ret.op = "extra_regs" =>
                 ret.val = kxregs[ret.t] /\ extra_registers_known[ret.t]
            /\ ret.op = "set_regs" =>
                 registers_known[ret.t] /\ registers[ret.t] = ret.val
            /\ ret.op = "resume_execution" =>
                 ~registers_known[ret.t] /\ ~extra_registers_known[ret.t]
      IN /\ RegsCacheValid'
         /\ (ret.op = "set_regs" /\ ret'.op = "regs" /\ ret'.t = ret.t)
              => ret'.val = ret.val ]_vars

(* regs() has returned the registers of the current stop while the extra  *)
(* registers cached at an earlier stop differ from the tracee's. *)
C10_Witness ==
  /\ ret.op = "regs" /\ ret.t = 1 /\ ret.val = 0
  /\ registers_known[1] /\ ~extra_registers_known[1]
  /\ extra_registers[1] = 1 /\ kxregs[1] = 0

----------------------------------------------------------------------------
(* The event stack: push_event() and pop_event() of any type on one task. *)

EventTypes == {"EV_SENTINEL", "EV_SYSCALL", "EV_NOOP"}

NextEvents ==
  \/ Spawn(0)
  \/ WaitpidReturns("status")
  \/ TraceeStop(1, StopStatus(0, SIGSTOP), 0, 0, 0)
  \/ \E type \in EventTypes : PushEvent(1, Event(type, NO_EXEC_INFO))
  \/ \E type \in EventTypes, ub \in {"crash", "skip"} :
       PopEvent(1, type, ub)

SpecEvents == Init /\ [][NextEvents]_vars

(* C11: while no assertion has failed, the event stack of every task is   *)
(* non-empty and its bottom element is the EV_SENTINEL that the            *)
(* constructor pushed. *)
C11_SentinelAtBase ==
  \A t \in alive :
    /\ Len(pending_events[t]) > 0
    /\ pending_events[t][1].type = "EV_SENTINEL"

----------------------------------------------------------------------------
(* finish_emulated_syscall() on a task that is in an emulated syscall,     *)
(* which it entered through cont_sysemu(). *)

NextFinish ==
  \/ Spawn(0)
  \/ \E res \in {"status", "EINTR"} : WaitpidReturns(res)
  \/ HandleRunaway
  \/ TraceeInterruptStop(1, StopStatus(PTRACE_EVENT_STOP, SIGTRAP))
  \/ \E st \in {StopStatus(0, SIGSTOP), StopStatus(0, SIGCHLD)} :
       TraceeStop(1, st, 0, 0, 0)
  \/ /\ ~breakpoints[1]
     /\ \E r \in RegVals : TraceeStop(1, SyscallStop, 0, r, 0)
  \/ \E r \in RegVals : TraceeExecutes(1, r)
  \/ ResumeExecution(1, "RESUME_SYSEMU", "RESUME_WAIT", 0)
  \/ /\ wait_status[1] \in {SyscallStop, 0}
     /\ \E known_idempotent \in BOOLEAN :
          FinishEmulatedSyscall(1, known_idempotent)

SpecFinish == Init /\ [][NextFinish]_vars

(* C12: when finish_emulated_syscall() returns from a call made with ip   *)
(* at neither syscallbuf syscall ip, the registers of the task and of the  *)
(* tracee are the ones read at entry, wait_status is 0, no internal        *)
(* breakpoint is left at ip, and the tracee has not executed the original  *)
(* instruction at ip during the call. *)
C12_FinishEmulatedSyscall ==
  (ret.op = "finish_emulated_syscall" /\ ~ret.val.known_idempotent) =>
    /\ registers_known[ret.t]
    /\ registers[ret.t] = ret.val.r
    /\ kregs[ret.t] = ret.val.r
    /\ wait_status[ret.t] = 0
    /\ ~breakpoints[ret.t]
    /\ ~g.insn_executed[ret.t]

(* finish_emulated_syscall() has returned after the tracee ran into the   *)
(* breakpoint and stopped with registers other than the ones saved. *)
C12_Witness ==
  /\ ret.op = "finish_emulated_syscall" /\ ~ret.val.known_idempotent
  /\ ret.val.r = 1
  /\ kstatus[ret.t] = StopStatus(0, SIGTRAP)
  /\ wait_status[ret.t] = 0

----------------------------------------------------------------------------
(* set_debug_regs() with lists of up to one watchpoint more than there    *)
(* are debug registers. *)

WATCH_EXEC == 0
WATCH_WRITE == 1

WatchConfigs ==
  { [addr |-> 1, num_bytes |-> 4, type |-> WATCH_WRITE],
    [addr |-> 2, num_bytes |-> 1, type |-> WATCH_EXEC] }

DebugRegs ==
  UNION { [1 .. n -> WatchConfigs] : n \in 0 .. NUM_X86_WATCHPOINTS + 1 }

NextDebug ==
  \/ Spawn(0)
  \/ WaitpidReturns("status")
  \/ TraceeStop(1, StopStatus(0, SIGSTOP), 0, 0, 0)
  \/ \E dregs \in DebugRegs, fail_at \in 0 .. NUM_X86_WATCHPOINTS + 1 :
       SetDebugRegs(1, dregs, fail_at)

SpecDebug == Init /\ [][NextDebug]_vars

(* C13: set_debug_regs(regs) returns true only if every watchpoint of     *)
(* regs,  at most four, has its address in its debug register and is        *)
(* enabled in the control register with its type and length, and no other  *)
(* is enabled; when it returns false the control register enables no       *)
(* watchpoint. *)
C13_DebugRegsAllOrNothing ==
  ret.op = "set_debug_regs" =>
    LET k == kdebugreg[ret.t]
        dregs == ret.val.regs
    IN IF ret.val.result
       THEN /\ Len(dregs) <= NUM_X86_WATCHPOINTS
            /\ \A i \in 1 .. NUM_X86_WATCHPOINTS :
                 IF i <= Len(dregs)
                 THEN /\ k.dr7[i].local
                      /\ k.dr7[i].type = dregs[i].type
                      /\ k.dr7[i].len = num_bytes_to_dr_len(dregs[i].num_bytes)
                      /\ k.dr[i] = dregs[i].addr
                 ELSE ~k.dr7[i].local
       ELSE \A i \in 1 .. NUM_X86_WATCHPOINTS : ~k.dr7[i].local

(* set_debug_regs() has returned false, because the write of the second   *)
(* address failed, on a task that had a watchpoint enabled. *)
C13_Witness ==
  /\ ret.op = "set_debug_regs" /\ ~ret.val.result
  /\ g.had_watch
  /\ Len(ret.val.regs) = 2
  /\ kdebugreg[ret.t].dr[1] = ret.val.regs[1].addr

----------------------------------------------------------------------------
(* The time slice: a tracee is resumed with a sample period, or its        *)
(* counter is armed by reset_hpc() and it is resumed, it retires branches  *)
(* and the kernel interrupts it when the counter reaches the period. *)

MaxPeriod == 2       \* the sample periods a counter is armed with

Overflowed(t) ==
  /\ kstate[t] = "running"
  /\ hpc_started[t]
  /\ sample_period[t] > 0
  /\ kctr[t] >= sample_period[t]

NextSlice ==
  \/ Spawn(0)
  \/ Clone(1, 2, {})
  \/ WaitpidReturns("status")
  \/ \E t \in Tids :
       sample_period[t] = 0 /\ TraceeStop(t, StopStatus(0, SIGSTOP), 0, 0, 0)
  \/ \E t \in Tids : TraceeRetire(t)
  \/ \E t \in Tids : TraceeOverflow(t)
  \/ \E t \in Tids, N \in 1 .. MaxPeriod : ResetHpc(t, N)
  \/ \E t \in Tids, N \in 0 .. MaxPeriod :
       ResumeExecution(t, "RESUME_CONT", "RESUME_WAIT", N)

SpecSlice ==
  Init /\ [][NextSlice]_vars /\ WF_vars(\E c \in Tids : TraceeOverflow(c))

(* C14: every resume_execution that resumes a tracee with an rbc_period N *)
(* other than 0 has, before the tracee runs, added the current reading of  *)
(* the counter to rbcs and restarted the counter with sample period N. *)
C14_RearmedBeforeResume ==
  g.resumed.t # 0 /\ g.resumed.period # 0 =>
    LET t == g.resumed.t IN
    /\ rbcs[t] = g.resumed.rbcs + g.resumed.reading
    /\ t \in g.did_reset
    /\ hpc_started[t]
    /\ sample_period[t] = g.resumed.period
    /\ kctr[t] <= MaxRbc

(* A tracee that had retired branches is resumed with a period: the        *)
(* reading is in rbcs and the counter counts again from 0. *)
C14_Witness ==
  /\ g.resumed.t = 1
  /\ g.resumed.period = 2
  /\ g.resumed.reading > 0
  /\ rbcs[1] = g.resumed.rbcs + g.resumed.reading
  /\ sample_period[1] = 2
  /\ kstate[1] = "running"
  /\ kctr[1] = 0

----------------------------------------------------------------------------
(* The debugger server: gdb and the driver. *)

MaxSent == 3         \* the packets, interrupts and '+' that gdb sends
MaxQueries == 2      \* the packets gdb sends where it has many to choose from

Thread42 == 4 * 16 + 2   \* the thread 0x42 that gdb and the driver name

Packets ==
  { Pkt("qSupported:multiprocess+", "q", "Supported", "multiprocess+", NoTid),
    Pkt("qC", "q", "C", NoArgs, NoTid),
    Pkt("qAttached", "q", "Attached", NoArgs, NoTid),
    Pkt("qfThreadInfo", "q", "fThreadInfo", NoArgs, NoTid),
    Pkt("qTStatus", "q", "TStatus", NoArgs, NoTid),
    Pkt("qSymbol::", "q", "Symbol", ":", NoTid),
    Pkt("qOffsets", "q", "Offsets", NoArgs, NoTid),
    Pkt("QStartNoAckMode", "Q", "StartNoAckMode", NoArgs, NoTid),
    Pkt("QNonStop:1", "Q", "NonStop", "1", NoTid),
    Pkt("QNonStop:0", "Q", "NonStop", "0", NoTid),
    Pkt("QNonStop", "Q", "NonStop", NoArgs, NoTid),
    Pkt("vCont?", "v", "Cont?", NoArgs, NoTid),
    Pkt("vStopped", "v", "Stopped", NoArgs, NoTid),
    Pkt("vCont;c", "v", "Cont", "c", NoTid),
    Pkt("vCont;s", "v", "Cont", "s", NoTid),
    Pkt("vCont;s:42", "v", "Cont", "s", Thread42),
    Pkt("vCont;t:42", "v", "Cont", "t", Thread42),
    Pkt("c", "c", "", NoArgs, NoTid),
    Pkt("s", "s", "", NoArgs, NoTid),
    Pkt("Hc42", "H", "c", NoArgs, Thread42),
    Pkt("Hg42", "H", "g", NoArgs, Thread42),
    Pkt("g", "g", "", NoArgs, NoTid),
    Pkt("G00000000", "G", "", NoArgs, NoTid),
    Pkt("M1000,1:00", "M", "", NoArgs, NoTid),
    Pkt("X1000,1:0", "X", "", NoArgs, NoTid),
    Pkt("P8=00000000", "P", "", NoArgs, NoTid),
    Pkt("m1000,1", "m", "", NoArgs, NoTid),
    Pkt("p8", "p", "", NoArgs, NoTid),
    Pkt("Z0,1000,1", "Z", "0", NoArgs, NoTid),
    Pkt("z0,1000,1", "z", "0", NoArgs, NoTid),
    Pkt("Z5,1000,1", "Z", "5", NoArgs, NoTid),
    Pkt("?", "?", "", NoArgs, NoTid),
    Pkt("D", "D", "", NoArgs, NoTid),
    Pkt("k", "k", "", NoArgs, NoTid) }

PacketsOf(texts) == { p \in Packets : p.text \in texts }

DSt == [dbg |-> dbg, gdb |-> gdb]

DCommit(x) ==
  \E v \in {x} : dbg' = v.dbg /\ gdb' = v.gdb /\ UNCHANGED TaskVars

(* The call of the driver that starts from the current state. *)
DCall(op) == [DSt EXCEPT !.gdb.op = op, !.gdb.entered = FALSE]

(* gdb sends the start of a packet and its body. *)
GdbSendsPacket(p) ==
  /\ ~DStopped(DSt)
  /\ ~gdb.open
  /\ gdb.sent < MaxSent
  /\ DCommit([DSt EXCEPT !.gdb.sock = Append(@, PacketStart(p)),
                         !.gdb.open = TRUE, !.gdb.sent = @ + 1])

(* gdb sends the end of the packet it has started. *)
GdbSendsEnd ==
  /\ ~DStopped(DSt)
  /\ gdb.open
  /\ DCommit([DSt EXCEPT !.gdb.sock = Append(@, PacketEnd),
                         !.gdb.open = FALSE])

(* gdb acknowledges a packet of the server. *)
GdbSendsAck ==
  /\ ~DStopped(DSt)
  /\ ~gdb.open
  /\ gdb.sent < MaxSent
  /\ DCommit([DSt EXCEPT !.gdb.sock = Append(@, GdbAck),
                         !.gdb.sent = @ + 1])

GdbSendsInterrupt ==
  /\ ~DStopped(DSt)
  /\ ~gdb.open
  /\ gdb.sent < MaxSent
  /\ DCommit([DSt EXCEPT !.gdb.sock = Append(@, Interrupt),
                         !.gdb.sent = @ + 1])

(* History: what the call finds is noted. *)
DbgGetRequest ==
  /\ gdb.pc = "idle"
  /\ DCommit(dbg_get_request(
       [DCall("dbg_get_request") EXCEPT
          !.gdb.entered = TRUE,
          !.gdb.call = [resume |-> dbg_is_resume_request(dbg.req),
                        buffered |-> SkipToStart(dbg.inbuf) # << >>,
                        readable |-> gdb.sock # << >>,
                        req |-> dbg.req]]))

(* read_packet() blocked in read_data_once() while no start of a packet   *)
(* is buffered reads what gdb has sent. *)
DbgReadData ==
  /\ gdb.pc = "read_packet"
  /\ SkipToStart(dbg.inbuf) = << >>
  /\ gdb.sock # << >>
  /\ DCommit(read_data_once(
       skip_to_packet_start([DSt EXCEPT !.gdb.entered = FALSE]).x))

(* read_packet() that did not find the end of the packet in the buffer is  *)
(* blocked in read_data_once(); after it has read, it looks for the end    *)
(* from the end of the data on (checkedlen is set after the read), where   *)
(* stale bytes are: with a '#' among them the assertion on packetend       *)
(* fails, and without it reads again. *)
DbgReadEnd(stale) ==
  /\ \/ /\ gdb.pc = "read_packet"
        /\ SkipToStart(dbg.inbuf) # << >>
        /\ ~PacketRead(SkipToStart(dbg.inbuf))
     \/ gdb.pc = "read_packet_end"
  /\ gdb.sock # << >>
  /\ LET x == read_data_once(
                skip_to_packet_start([DSt EXCEPT !.gdb.entered = FALSE]).x)
     IN DCommit(IF stale THEN DAbort(x)
                ELSE [x EXCEPT !.gdb.pc = "read_packet_end"])

DbgPacket(stale, ub) ==
  /\ gdb.pc = "read_packet"
  /\ PacketRead(SkipToStart(dbg.inbuf))
  /\ DCommit(dbg_get_request_loop(
       skip_to_packet_start([DSt EXCEPT !.gdb.entered = FALSE]).x,
       stale, ub))

DbgNotifyStop(thread, sig) ==
  /\ gdb.pc = "idle"
  /\ DCommit(dbg_notify_stop(DCall("dbg_notify_stop"), thread, sig))

DbgNotifyExitCode(code) ==
  /\ gdb.pc = "idle"
  /\ DCommit(dbg_notify_exit_code(DCall("dbg_notify_exit_code"), code))

DbgNotifyExitSignal(sig) ==
  /\ gdb.pc = "idle"
  /\ DCommit(dbg_notify_exit_signal(DCall("dbg_notify_exit_signal"), sig))

DbgReply(thread, ok) ==
  /\ gdb.pc = "idle"
  /\ request_needs_immediate_response(dbg.req)
  /\ dbg.req.type # "DREQ_INTERRUPT"
  /\ DCommit(dbg_reply(DCall("dbg_reply"), thread, ok))

(* gdb sends at most max packets, of the given texts; the driver asks for  *)
(* requests. *)
NextServer(texts, max) ==
  \/ \E p \in PacketsOf(texts) : gdb.sent < max /\ GdbSendsPacket(p)
  \/ GdbSendsEnd
  \/ DbgGetRequest
  \/ DbgReadData
  \/ \E stale \in BOOLEAN : DbgReadEnd(stale)
  \/ \E stale \in StaleBytes, ub \in {"crash", "unequal"} :
       DbgPacket(stale, ub)

InitReplay == Init /\ ~recording

(* All that the server has written, flushed or not. *)
Written == gdb.wire \o dbg.outbuf

----------------------------------------------------------------------------
(* No-ack mode. *)

NextAck ==
  \/ NextServer({"QStartNoAckMode", "qSupported:multiprocess+", "QNonStop:1",
                 "vCont;c", "qC"}, MaxSent)
  \/ GdbSendsAck
  \/ GdbSendsInterrupt
  \/ DbgNotifyStop(Thread42, SIGTRAP)
  \/ \E ok \in BOOLEAN : DbgReply(Thread42, ok)

SpecAck == InitReplay /\ [][NextAck]_vars

(* The reply OK to QStartNoAckMode is at place i of what was written. *)
IsNoAckReply(i) ==
  /\ Written[i].k = "$"
  /\ Written[i].body = "OK"
  /\ Written[i].p = "QStartNoAckMode"
  /\ Written[i].by = "dbg_get_request"

(* C16: the QStartNoAckMode packet that enables no-ack mode is             *)
(* acknowledged with '+' right before its reply OK; no_ack is set from     *)
(* then on, and no '+' is written after that reply, for no packet that     *)
(* follows. *)
C16_NoAckMode ==
  /\ dbg.no_ack <=> \E i \in DOMAIN Written : IsNoAckReply(i)
  /\ \A i \in DOMAIN Written :
       IsNoAckReply(i) /\ (\A j \in 1 .. i - 1 : ~IsNoAckReply(j))
         => /\ i > 1
            /\ Written[i - 1].k = "+"
            /\ Written[i - 1].n = Written[i].n
  /\ \A i, j \in DOMAIN Written :
       IsNoAckReply(i) /\ i < j => Written[j].k # "+"

(* In no-ack mode a resume packet that followed has been answered, with    *)
(* no '+' after the reply that enabled the mode. *)
C16_Witness ==
  /\ dbg.no_ack
  /\ dbg.non_stop
  /\ \E i, j \in DOMAIN gdb.wire :
       /\ 1 < i /\ i < j
       /\ gdb.wire[i].p = "QStartNoAckMode" /\ gdb.wire[i].body = "OK"
       /\ gdb.wire[i - 1].k = "+"
       /\ gdb.wire[j].p = "QNonStop:1" /\ gdb.wire[j].body = "OK"

----------------------------------------------------------------------------
(* Non-stop mode. *)

NextNonStop ==
  \/ NextServer({"QNonStop:1", "QNonStop:0", "QNonStop", "vCont;c",
                 "vCont;s:42", "c", "s"}, MaxSent)
  \/ DbgNotifyStop(Thread42, SIGTRAP)

SpecNonStop == InitReplay /\ [][NextNonStop]_vars

ResumePackets == {"vCont;c", "vCont;s", "vCont;s:42", "c", "s"}

(* The reply OK to QNonStop:1 is at place i of what was written. *)
IsNonStopReply(i) ==
  /\ Written[i].k = "$"
  /\ Written[i].body = "OK"
  /\ Written[i].p = "QNonStop:1"
  /\ Written[i].by = "dbg_get_request"

(* C17: a resume packet processed before a QNonStop:1 was accepted ends    *)
(* the server fatally, and no continue or step request is made or returned *)
(* before that; a QNonStop with another value than 1 ends the server; and  *)
(* non_stop is set exactly from the accepted QNonStop:1 on. *)
C17_NonStopOnly ==
  /\ dbg.non_stop <=> \E i \in DOMAIN Written : IsNonStopReply(i)
  /\ gdb.last.p.text \in ResumePackets /\ ~gdb.last.non_stop
       => /\ gdb.pc = "fatal"
          /\ gdb.last.replies = 0
  /\ ~dbg.non_stop
       => /\ ~dbg_is_resume_request(dbg.req)
          /\ ~dbg_is_resume_request(gdb.ret)
  /\ gdb.last.p.request = "Q" /\ gdb.last.p.name = "NonStop"
       /\ gdb.last.p.args # "1"
       => /\ gdb.pc \in {"fatal", "aborted"}
          /\ gdb.last.replies = 0
          /\ dbg.non_stop = gdb.last.non_stop

(* A vCont;c sent before any QNonStop has ended the server. *)
C17_Witness ==
  /\ gdb.last.p.text = "vCont;c"
  /\ ~gdb.last.non_stop
  /\ gdb.pc = "fatal"
  /\ gdb.ret = NoReq

----------------------------------------------------------------------------
(* Resume requests and the notifications of the driver. *)

NextResume ==
  \/ NextServer({"QNonStop:1", "vCont;c", "vCont;s:42", "vCont;s",
                 "vCont;t:42", "c", "s"}, MaxSent)
  \/ GdbSendsInterrupt
  \/ DbgNotifyStop(Thread42, SIGTRAP)
  \/ DbgNotifyExitCode(0)
  \/ DbgNotifyExitSignal(9)

SpecResume == InitReplay /\ [][NextResume]_vars

NotifyCalls ==
  {"dbg_notify_stop", "dbg_notify_exit_code", "dbg_notify_exit_signal"}

(* The packet read last was accepted in non-stop mode. *)
AcceptedLast(texts) ==
  /\ gdb.last.p.text \in texts
  /\ gdb.last.non_stop
  /\ ~DStopped(DSt)

(* The packet read last was answered with OK and made a request of the     *)
(* given type, which dbg_get_request() returned to the driver. *)
ResumeReturned(type) ==
  /\ gdb.last.ret = 1
  /\ \E i \in DOMAIN Written :
       /\ Written[i].k = "$" /\ Written[i].body = "OK"
       /\ Written[i].n = gdb.n
  /\ gdb.ret_n = gdb.n
  /\ gdb.ret.type = type

(* The packet read last was answered inside the server. *)
AnsweredInside ==
  /\ gdb.last.ret = 0
  /\ gdb.last.replies >= 1
  /\ gdb.ret_n # gdb.n

(* What a notify call of the driver wrote for a continue or step request   *)
(* comes after the OK that answered the request's packet, no request has   *)
(* two, and dbg_notify_stop(0x42, SIGTRAP) writes %Stop:T05thread:42;. *)
NotifiedOnce ==
  \A i \in DOMAIN Written :
    Written[i].by \in NotifyCalls
      /\ Written[i].type \in {"DREQ_CONTINUE", "DREQ_STEP"}
    => /\ \E j \in 1 .. i - 1 :
            /\ Written[j].k = "$" /\ Written[j].body = "OK"
            /\ Written[j].by = "dbg_get_request"
            /\ Written[j].n = Written[i].req
       /\ \A j \in DOMAIN Written \ {i} :
            ~(Written[j].by \in NotifyCalls /\ Written[j].req = Written[i].req)
       /\ Written[i].by = "dbg_notify_stop"
            => Written[i].k = "%" /\ Written[i].body = "Stop:T05thread:42;"

----------------------------------------------------------------------------
(* dbg_get_request(). *)

NextRequest ==
  \/ NextServer({"QNonStop:1", "vCont;c", "vCont;s:42", "g", "vStopped"},
                MaxSent)
  \/ GdbSendsAck
  \/ DbgNotifyStop(Thread42, SIGTRAP)
  \/ \E ok \in BOOLEAN : DbgReply(Thread42, ok)

SpecRequest == InitReplay /\ [][NextRequest]_vars

(* C19: dbg_get_request() returns without reading exactly when it is       *)
(* called with a continue or step request current, no packet or part of a  *)
(* packet buffered and nothing to be read from gdb, and it then returns    *)
(* that request and leaves it current; in every other case it reads and    *)
(* processes packets, and it returns from there only with the request that *)
(* the packet processed last made for the driver.  (Called with a request  *)
(* current that needs an immediate response, its assertion fails.) *)
C19_GetRequest ==
  /\ gdb.entered =>
       LET c == gdb.call
           immediate == c.resume /\ ~c.buffered /\ ~c.readable
       IN /\ (gdb.pc = "idle") <=> immediate
          /\ immediate => /\ gdb.nonblocking
                          /\ gdb.ret = c.req
                          /\ dbg.req = c.req
          /\ ~immediate =>
               \/ gdb.pc = "read_packet"
               \/ /\ gdb.pc = "aborted"
                  /\ request_needs_immediate_response(c.req)
  /\ gdb.op = "dbg_get_request" /\ gdb.pc = "idle" /\ ~gdb.nonblocking
       => /\ gdb.last.ret = 1
          /\ gdb.ret = dbg.req
          /\ gdb.ret_n = gdb.n
          /\ gdb.ret.type # "DREQ_NONE"

(* Called again with the continue request current and nothing sent by     *)
(* gdb, dbg_get_request() has returned the request without reading. *)
C19_Witness ==
  /\ gdb.entered
  /\ gdb.pc = "idle"
  /\ gdb.nonblocking
  /\ gdb.call.req.type = "DREQ_CONTINUE"
  /\ gdb.ret = gdb.call.req
  /\ ~gdb.call.readable
  /\ dbg.inbuf = << >>

----------------------------------------------------------------------------
(* The packets that the server answers itself. *)

NextInternal ==
  \/ NextServer({"qSupported:multiprocess+", "qC", "qAttached",
                 "qfThreadInfo", "qTStatus", "qSymbol::", "QStartNoAckMode",
                 "QNonStop:1", "vCont?", "vStopped", "Hc42", "Hg42"},
                MaxQueries)
  \/ \E ok \in BOOLEAN : DbgReply(Thread42, ok)

SpecInternal == InitReplay /\ [][NextInternal]_vars

(* The packet read last made a request of the given type and no reply,     *)
(* and dbg_get_request() returned the request to the driver. *)
GivenToDriver(type) ==
  /\ gdb.last.ret = 1
  /\ \A i \in DOMAIN Written :
       ~(/\ Written[i].n = gdb.n
         /\ Written[i].k = "$"
         /\ Written[i].by = "dbg_get_request")
  /\ gdb.ret_n = gdb.n
  /\ gdb.ret.type = type

(* C20 as stated: each of qSupported, qC, qAttached, qfThreadInfo,         *)
(* qTStatus, qSymbol, QStartNoAckMode, QNonStop, vCont?, vStopped and H is *)
(* answered inside the server: process_packet() replies and returns 0,     *)
(* and dbg_get_request() does not return because of it. *)
C20_InternalPackets ==
  gdb.last.p.text \in
    {"qSupported:multiprocess+", "qC", "qAttached", "qfThreadInfo",
     "qTStatus", "qSymbol::", "QStartNoAckMode", "QNonStop:1", "vCont?",
     "vStopped", "Hc42", "Hg42"}
  => ~DStopped(DSt) /\ AnsweredInside

(* C20 amended: qSupported, qAttached, qTStatus, qSymbol, QStartNoAckMode  *)
(* and QNonStop:1 are answered inside the server, process_packet()         *)
(* replying, flushing the reply and returning 0, and so are vCont? and     *)
(* vStopped in non-stop mode, which before it end the server fatally; qC,  *)
(* qfThreadInfo and H are not: they make the requests for the current      *)
(* thread, the thread list and the selection of a thread, which            *)
(* dbg_get_request() returns to the driver with no reply written. *)
C20_InternalPacketsAmended ==
  /\ gdb.last.p.text \in
       {"qSupported:multiprocess+", "qAttached", "qTStatus", "qSymbol::",
        "QStartNoAckMode", "QNonStop:1"}
       => /\ gdb.pc # "fatal"
          /\ ~DStopped(DSt) => AnsweredInside /\ dbg.outbuf = << >>
  /\ gdb.last.p.text \in {"vCont?", "vStopped"}
       => /\ gdb.last.non_stop <=> gdb.pc # "fatal"
          /\ ~DStopped(DSt) => AnsweredInside /\ dbg.outbuf = << >>
  /\ gdb.last.p.text = "qC" /\ ~DStopped(DSt)
       => GivenToDriver("DREQ_GET_CURRENT_THREAD")
  /\ gdb.last.p.text = "qfThreadInfo" /\ ~DStopped(DSt)
       => GivenToDriver("DREQ_GET_THREAD_LIST")
  /\ gdb.last.p.text = "Hc42" /\ ~DStopped(DSt)
       => GivenToDriver("DREQ_SET_CONTINUE_THREAD")
  /\ gdb.last.p.text = "Hg42" /\ ~DStopped(DSt)
       => GivenToDriver("DREQ_SET_QUERY_THREAD")

(* QNonStop:1 and then, in non-stop mode, vStopped have been answered by   *)
(* the server, which goes on reading. *)
C20_Witness ==
  /\ gdb.last.p.text = "vStopped"
  /\ gdb.last.non_stop
  /\ gdb.pc = "read_packet"
  /\ \E i, j \in DOMAIN gdb.wire :
       /\ gdb.wire[i].p = "QNonStop:1" /\ gdb.wire[i].body = "OK"
       /\ gdb.wire[j].p = "vStopped" /\ gdb.wire[j].body = "OK"

----------------------------------------------------------------------------
(* The packets that write registers and memory. *)

WritePackets == {"G00000000", "M1000,1:00", "X1000,1:0", "P8=00000000"}

NextWrites ==
  \/ NextServer(WritePackets
                  \cup {"QNonStop:1", "g", "m1000,1", "p8", "Z0,1000,1",
                        "z0,1000,1", "Z5,1000,1", "?", "Hg42", "vCont;c"},
                MaxQueries)
  \/ \E ok \in BOOLEAN : DbgReply(Thread42, ok)

SpecWrites == InitReplay /\ [][NextWrites]_vars

(* The requests that process_packet() and its callees make: they read      *)
(* registers, memory and the state of threads, select a thread, resume and *)
(* interrupt, and set and remove breakpoints and watchpoints. *)
DriverRequests ==
  {"DREQ_NONE", "DREQ_GET_CURRENT_THREAD", "DREQ_GET_IS_THREAD_ALIVE",
   "DREQ_GET_MEM", "DREQ_GET_OFFSETS", "DREQ_GET_REG", "DREQ_GET_REGS",
   "DREQ_GET_STOP_REASON", "DREQ_GET_THREAD_LIST", "DREQ_INTERRUPT",
   "DREQ_SET_CONTINUE_THREAD", "DREQ_SET_QUERY_THREAD", "DREQ_CONTINUE",
   "DREQ_STEP"}
  \cup { k \o WatchTypes[n] : k \in {"DREQ_SET_", "DREQ_REMOVE_"},
                               n \in DOMAIN WatchTypes }

(* The replies that process_packet() wrote for the packet read last. *)
RepliesToLast ==
  { i \in DOMAIN Written :
      /\ Written[i].n = gdb.n
      /\ Written[i].k = "$"
      /\ Written[i].by = "dbg_get_request" }

(* The packet read last got the empty packet for its reply, flushed, made  *)
(* no request and did not make dbg_get_request() return. *)
AnsweredEmpty ==
  /\ gdb.last.ret = 0
  /\ Cardinality(RepliesToLast) = 1
  /\ \A i \in RepliesToLast : Written[i].body = "" /\ i \in DOMAIN gdb.wire
  /\ dbg.req = NoReq
  /\ gdb.ret_n # gdb.n

(* C21 as stated: for every G, M, X and P packet the reply is the empty    *)
(* packet and no request is given to the driver, and no request that       *)
(* dbg_get_request() returns asks for a write of registers or memory. *)
C21_NoWrites ==
  /\ gdb.last.p.text \in WritePackets => AnsweredEmpty
  /\ gdb.ret.type \in DriverRequests

(* C21 amended: in non-stop mode every G, M, X and P packet gets the empty *)
(* packet for its reply and no request is given to the driver, and before  *)
(* non-stop mode such a packet ends the server fatally with no reply; no   *)
(* request that dbg_get_request() returns asks for a write of registers or *)
(* memory. *)
C21_NoWritesAmended ==
  /\ gdb.last.p.text \in WritePackets
       => IF gdb.last.non_stop THEN AnsweredEmpty
          ELSE gdb.pc = "fatal" /\ RepliesToLast = {}
  /\ gdb.ret.type \in DriverRequests

(* In non-stop mode the M packet has been answered with the empty packet   *)
(* and the server goes on reading. *)
C21_Witness ==
  /\ gdb.last.p.text = "M1000,1:00"
  /\ gdb.last.non_stop
  /\ gdb.pc = "read_packet"
  /\ \E i \in DOMAIN gdb.wire :
       /\ gdb.wire[i].p = "M1000,1:00"
       /\ gdb.wire[i].k = "$"
       /\ gdb.wire[i].body = ""

----------------------------------------------------------------------------
(* Detach and kill. *)

NextExit ==
  NextServer({"QNonStop:1", "QStartNoAckMode", "qAttached", "D", "k"},
             MaxSent)

SpecExit == InitReplay /\ [][NextExit]_vars

(* C22: when the server exits on a D or k packet, its reply OK has been    *)
(* sent to gdb and nothing is left in the output buffer. *)
C22_ReplyBeforeExit ==
  gdb.pc = "exited"
    => /\ dbg.outbuf = << >>
       /\ \E i \in DOMAIN gdb.wire :
            /\ gdb.wire[i].n = gdb.n
            /\ gdb.wire[i].k = "$"
            /\ gdb.wire[i].body = "OK"

----------------------------------------------------------------------------
(* The tables of signal dispositions. *)

CloneFlagSets ==
  { {}, {"CLONE_SHARE_SIGHANDLERS", "CLONE_SHARE_TASK_GROUP",
         "CLONE_SHARE_VM"} }

Sigactions ==
  { KernelSigaction(HandlerAddr, {"SA_RESETHAND"}),
    KernelSigaction(SIG_IGN, {}) }

NextSighandlers ==
  \/ Spawn(0)
  \/ \E flags \in CloneFlagSets : Clone(1, 2, flags)
  \/ WaitpidReturns("status")
  \/ \E t \in Tids : TraceeStop(t, StopStatus(0, SIGSTOP), 0, 0, 0)
  \/ \E t \in Tids, sig \in TableSigs, res \in {0, -1},
        new_sigaction \in {0, HandlerAddr}, sa \in Sigactions :
       UpdateSigaction(t, sig, res, new_sigaction, sa)
  \/ \E t \in Tids, sig \in TableSigs : SignalDelivered(t, sig)
  \/ \E t \in Tids, has_file \in BOOLEAN : PostExec(t, has_file)

InitRecord == Init /\ recording

SpecSighandlers == InitRecord /\ [][NextSighandlers]_vars

(* C23: a child of clone with CLONE_SHARE_SIGHANDLERS points to the table  *)
(* of its parent, so each sees the updates of the other, for as long as    *)
(* neither has exec'd; a child of clone without the flag points to a table *)
(* of its own, which when clone returns holds in every entry what the      *)
(* table of the parent holds. *)
C23_CloneSighandlers ==
  /\ \A c \in alive :
       LET p == g.made_by[c] IN
       p # 0 /\ p \in alive /\ g.execed \cap {c, p} = {}
         => ("CLONE_SHARE_SIGHANDLERS" \in g.flags[c]
               <=> sighandlers[c] = sighandlers[p])
  /\ pc = "idle" /\ ret.op = "clone"
       /\ "CLONE_SHARE_SIGHANDLERS" \notin g.flags[ret.t]
       => sighandler_tables[sighandlers[ret.t]]
            = sighandler_tables[sighandlers[g.made_by[ret.t]]]

(* C24: when post_exec() has returned, every entry of the task's table     *)
(* that was a user handler in the table it had is the default entry, with  *)
(* resethand clear, every other entry is what it was, and the table it had *)
(* is another one and holds what it held. *)
C24_PostExec ==
  pc = "idle" /\ ret.op = "post_exec" =>
    LET new == sighandler_tables[sighandlers[ret.t]]
        old == g.exec_old.handlers
    IN
    /\ \A sig \in TableSigs :
         new[sig] = IF is_user_handler(old[sig]) THEN Sighandler0
                    ELSE old[sig]
    /\ \A sig \in TableSigs :
         is_user_handler(old[sig])
           => new[sig].sa.k_sa_handler = SIG_DFL /\ ~new[sig].resethand
    /\ sighandlers[ret.t] # g.exec_old.id
    /\ \A u \in alive :
         sighandlers[u] = g.exec_old.id
           => sighandler_tables[sighandlers[u]] = old

(* Task 1 has exec'd; task 2, which shared its table, still points to the  *)
(* table, which has the user handler of SIGALRM that task 1 has lost, and  *)
(* an ignored SIGCHLD which task 1 has kept. *)
C24_Witness ==
  /\ pc = "idle" /\ ret.op = "post_exec" /\ ret.t = 1
  /\ 2 \in alive
  /\ sighandlers[2] = g.exec_old.id
  /\ is_user_handler(sighandler_tables[sighandlers[2]][SIGALRM])
  /\ sighandler_tables[sighandlers[1]][SIGALRM] = Sighandler0
  /\ sighandler_tables[sighandlers[2]][SIGCHLD].sa.k_sa_handler = SIG_IGN
  /\ sighandler_tables[sighandlers[1]][SIGCHLD].sa.k_sa_handler = SIG_IGN

----------------------------------------------------------------------------
(* Unstable task groups. *)

NextUnstable ==
  \/ Spawn(0)
  \/ \E flags \in CloneFlagSets : Clone(1, 2, flags)
  \/ WaitpidReturns("status")
  \/ \E t \in Tids : TraceeStop(t, StopStatus(0, SIGSTOP), 0, 0, 0)
  \/ \E t \in Tids : DestabilizeTaskGroup(t)
  \/ \E t \in Tids, has_file \in BOOLEAN : PostExec(t, has_file)

SpecUnstable == InitRecord /\ [][NextUnstable]_vars

(* C25: once a task group has been destabilized, every task in its task    *)
(* set is unstable, also a task that clone adds to it later, and unstable  *)
(* of a task is never reset. *)
C25_UnstableGroup ==
  /\ [](\A i \in g.destabilized : \A t \in tg_task_set[i] : unstable[t])
  /\ [][\A t \in alive \cap alive' : unstable[t] => unstable'[t]]_vars

----------------------------------------------------------------------------
(* The end of a task. *)

ExitStatuses == {0, SIGKILL}

NextReap ==
  \/ Spawn(0)
  \/ \E flags \in {{}, {"CLONE_SHARE_VM", "CLONE_CLEARTID"}} :
       Clone(1, 2, flags)
  \/ WaitpidReturns("status")
  \/ \E t \in Tids,
        st \in {StopStatus(0, SIGSTOP),
                StopStatus(PTRACE_EVENT_EXIT, SIGTRAP)} :
       TraceeStop(t, st, 0, 0, 0)
  \/ \E t \in Tids, st \in ExitStatuses : TraceeExit(t, st)
  \/ \E t \in Tids : OpenMemFd(t)
  \/ \E t \in Tids,
        st \in {SIGKILL, StopStatus(PTRACE_EVENT_EXIT, SIGTRAP)} : Kill(t, st)
  \/ ResumeExecution(2, "RESUME_CONT", "RESUME_NONBLOCKING", 0)
  \/ \E t \in Tids : DestroyTask(t)
  \/ \E res \in {"status", "EINTR", "ECHILD"} : ReapReturns(res)
  \/ FutexWaitReturns

SpecReap == InitRecord /\ [][NextReap]_vars

DtorOrder ==
  << "destroy_hpc", "destroy_local_buffers", "detach", "waitpid",
     "futex_wait" >>

(* C26: the destructor of a task destroys the counter, unmaps the local    *)
(* syscall buffer, detaches and reaps, in this order.  For an unstable     *)
(* task it calls no waitpid() and waits on no futex after the detach.  For *)
(* a stable task the loop of waitpid() ends exactly when waitpid() fails   *)
(* with ECHILD or reports that the task has exited or was ended by a       *)
(* signal, and then the futex is waited on exactly when tid_futex is set   *)
(* and another task is in the task set of the address space, which is      *)
(* never the case after kill(). *)
C26_Teardown ==
  /\ [](/\ \E n \in 0 .. Len(DtorOrder) : g.dtor = SubSeq(DtorOrder, 1, n)
        /\ pc \in {"reap", "futex_wait"} =>
             /\ Len(g.dtor) >= 4
             /\ ~unstable[cur]
        /\ pc = "futex_wait" =>
             /\ tid_futex[cur] # 0
             /\ as_task_set[as[cur]] \ {cur} # {}
             /\ cur \notin g.killed
        /\ pc = "idle" /\ ret.op = "~Task" =>
             /\ Len(g.dtor) >= 3
             /\ unstable[ret.t] => Len(g.dtor) = 3)
  /\ [][pc = "reap" /\ pc' # "aborted" =>
         /\ pc' # "reap" <=> g'.reap_res \in {"ECHILD", "dead"}
         /\ pc' # "reap" =>
              (pc' = "futex_wait" <=>
                 /\ tid_futex[cur] # 0
                 /\ as_task_set[as[cur]] \ {cur} # {})]_vars

(* A stable task that shares its address space has been destroyed, and its *)
(* destructor has waited for the kernel to clear its cleartid futex. *)
C26_Witness ==
  /\ pc = "idle" /\ ret.op = "~Task" /\ ret.t = 2
  /\ g.dtor = DtorOrder
  /\ ~unstable[2]
  /\ 1 \in alive

----------------------------------------------------------------------------
(* The memory of the tracee through ptrace. *)

Bufs == UNION { [1 .. n -> Bytes] : n \in 0 .. MaxLen }

(* The access that the driver makes is input: the address and the bytes    *)
(* to write, as many as are then read. *)
InitMem ==
  /\ \E addr \in MemAddrs, buf \in Bufs :
       InitWith([addr |-> addr, buf |-> buf])
  /\ recording

NextPtraceMem ==
  \/ Spawn(0)
  \/ TraceeStop(1, StopStatus(0, SIGSTOP), 0, 0, 0)
  \/ WaitpidReturns("status")
  \/ WriteBytesPtrace(1, g.input.addr, g.input.buf)
  \/ ReadBytesPtrace(1, g.input.addr, Len(g.input.buf))

SpecPtraceMem == InitMem /\ [][NextPtraceMem]_vars

(* Every word of [addr, addr + n) is mapped. *)
FullyMapped(addr, n) == \A a \in addr .. addr + n - 1 : a \in MemAddrs

(* The bytes of the word at w that a write of n bytes at addr replaces. *)
Replaced(w, addr, n) ==
  {a \in w .. w + word_size - 1 : a >= addr /\ a < addr + n}

(* C27: when the range is fully mapped, write_bytes_ptrace(addr, n, buf)    *)
(* returns n, the read_bytes_ptrace(addr, n) that follows it returns n      *)
(* bytes that equal buf, the write changes no byte of the tracee outside    *)
(* [addr, addr + n), and it has read a word before writing it only if it    *)
(* replaced fewer than word_size bytes of the word. *)
C27_PtraceRoundTrip ==
  /\ [](pc = "idle" /\ ret.op = "write_bytes_ptrace"
          /\ FullyMapped(g.last_write.addr, Len(g.last_write.buf))
        => /\ ret.val = Len(g.last_write.buf)
           /\ \A w \in g.peeked :
                Cardinality(Replaced(w, g.last_write.addr,
                                     Len(g.last_write.buf))) < word_size)
  /\ [](pc = "idle" /\ ret.op = "read_bytes_ptrace"
          /\ ret.val.addr = g.last_write.addr
          /\ ret.val.buf_size = Len(g.last_write.buf)
          /\ FullyMapped(ret.val.addr, ret.val.buf_size)
        => ret.val.buf = g.last_write.buf)
  /\ [][pc' = "idle" /\ ret'.op = "write_bytes_ptrace"
          /\ FullyMapped(g'.last_write.addr, Len(g'.last_write.buf))
        => \A i \in AsIds : \A a \in MemAddrs :
             \/ kmem'[i][a] = kmem[i][a]
             \/ /\ i = as[ret'.t]
                /\ a >= g'.last_write.addr
                /\ a < g'.last_write.addr + Len(g'.last_write.buf)]_vars

(* Five bytes have been written at address 3, one into the first word and  *)
(* four that are the second word, over other bytes, and have been read. *)
C27_Witness ==
  /\ pc = "idle" /\ ret.op = "read_bytes_ptrace"
  /\ ret.val.addr = 3
  /\ g.last_write.addr = 3
  /\ ret.val.buf = << 1, 2, 1, 1, 2 >>
  /\ g.last_write.buf = << 1, 2, 1, 1, 2 >>
  /\ \A a \in 0 .. 2 : kmem[as[1]][a] = 0

----------------------------------------------------------------------------
(* The memory of the tracee through the mem fd, and through ptrace when    *)
(* there is none. *)

NextMemFd ==
  \/ Spawn(0)
  \/ TraceeStop(1, StopStatus(0, SIGSTOP), 0, 0, 0)
  \/ WaitpidReturns("status")
  \/ OpenMemFd(1)
  \/ WriteBytesHelper(1, g.input.addr, g.input.buf)
  \/ ReadBytesFallible(1, g.input.addr, Len(g.input.buf))
  \/ \E stale \in BOOLEAN : PreadReturns(stale)
  \/ \E stale \in BOOLEAN : PwriteReturns(stale)

SpecMemFd == InitMem /\ [][NextMemFd]_vars

(* The bytes of the last write are all in the memory of task t. *)
AllWritten(t) ==
  \A i \in 1 .. Len(g.last_write.buf) :
    /\ g.last_write.addr + i - 1 \in MemAddrs
    /\ kmem[as[t]][g.last_write.addr + i - 1] = g.last_write.buf[i]

C29_ReopenOnce == g.reopens <= 1

----------------------------------------------------------------------------
(* The file descriptors of the counter. *)

NextHpc ==
  \/ Spawn(0)
  \/ Clone(1, 2, {})
  \/ \E t \in Tids : TraceeStop(t, StopStatus(0, SIGSTOP), 0, 0, 0)
  \/ \E t \in Tids : TraceeExit(t, 0)
  \/ WaitpidReturns("status")
  \/ \E t \in Tids : OpenMemFd(t)
  \/ \E t \in Tids, val \in {0, MaxPeriod} : ResetHpc(t, val)
  \/ \E t \in Tids : StopHpc(t)
  \/ \E t \in Tids : DestroyTask(t)
  \/ \E res \in {"status", "EINTR", "ECHILD"} : ReapReturns(res)

SpecHpc == InitRecord /\ [][NextHpc]_vars

(* C30: the counter of a task has at most one fd open; when reset_hpc(val)  *)
(* has returned the counter is started, with sample_period val and the fd   *)
(* it has just opened; when the task has been destroyed its counter has no  *)
(* fd open; and the counter closes no fd but one that it has opened and not *)
(* yet closed, also when it was never started. *)
C30_CounterFds ==
  /\ \A t \in Tids :
       /\ Cardinality(g.hpc_open[t]) <= 1
       /\ g.hpc_open[t] \subseteq open_fds
       /\ hpc_started[t] => g.hpc_open[t] = {hpc_fd[t]}
  /\ pc = "idle" /\ ret.op = "reset_hpc" =>
       /\ hpc_started[ret.t]
       /\ sample_period[ret.t] = ret.val
  /\ pc = "idle" /\ ret.op = "~Task" => g.hpc_open[ret.t] = {}
  /\ g.bad_close = {}

----------------------------------------------------------------------------
(* The waiter slot and the alarm: wait() on two tasks, the SIGALRM handler *)
(* while waitpid() blocks and on the way out of wait(). *)

AlarmStatuses ==
  { StopStatus(0, SIGCHLD), StopStatus(PTRACE_EVENT_STOP, SIGSTOP) }

NextAlarm ==
  \/ Spawn(0)
  \/ Clone(1, 2, {})
  \/ \E res \in {"status", "EINTR", "ECHILD"} : WaitpidReturns(res)
  \/ \E res \in {"status", "EINTR"}, late \in {"before_clear", "after_clear"} :
       WaitpidReturnsAlarm(res, late)
  \/ HandleRunaway
  \/ \E t \in {1, 2}, st \in AlarmStatuses : TraceeStop(t, st, 0, 0, 0)
  \/ \E t \in {1, 2} :
       TraceeInterruptStop(t, StopStatus(PTRACE_EVENT_STOP, SIGTRAP))
  \/ \E t \in {1, 2} : Wait(t)
  \/ \E t \in {1, 2} :
       ResumeExecution(t, "RESUME_CONT", "RESUME_NONBLOCKING", 0)

SpecAlarm == Init /\ [][NextAlarm]_vars

(* A step in which the SIGALRM handler ran: alone, while waitpid()         *)
(* blocked, or on the way out of wait(). *)
AlarmStep ==
  /\ pc = "waitpid"
  /\ alarm_armed /\ ~alarm_armed'
  /\ \/ pc' = "waitpid"
     \/ g'.late # "no"

(* C31: the waiter slot is null and the alarm cancelled whenever no wait() *)
(* is in progress and the slot holds no task but the one inside wait(),    *)
(* while recording; a run of the SIGALRM handler uses up the alarm, sends  *)
(* PTRACE_INTERRUPT to no task but the waiter inside wait() whose          *)
(* wait_status is still the sentinel -1, and with no waiter or a status    *)
(* already written it sends nothing and does not set                       *)
(* waiter_was_interrupted. *)
C31_WaiterAndAlarm ==
  /\ [](/\ pc \notin {"waitpid"} => waiter = 0 /\ ~alarm_armed
        /\ waiter # 0 => waiter = cur /\ recording
        /\ alarm_armed => waiter # 0)
  /\ [][AlarmStep =>
          LET saw == g'.alarm_saw
              did == g'.alarm_did
          IN /\ saw # NoAlarm
             /\ did # 0 =>
                  /\ did = cur /\ did = saw.waiter
                  /\ recording
                  /\ saw.status = SentinelStatus
             /\ (saw.waiter = 0 \/ saw.status # SentinelStatus) =>
                  /\ did = 0
                  /\ kintr' = kintr
                  /\ waiter_was_interrupted => waiter_was_interrupted'
                       \/ g'.waitpid_res = "status"
                  /\ ~waiter_was_interrupted => ~waiter_was_interrupted']_vars

(* The handler has interrupted task 2 inside its wait(). *)
C31_Witness ==
  /\ pc = "waitpid" /\ cur = 2 /\ waiter = 2
  /\ g.alarm_saw = [waiter |-> 2, status |-> SentinelStatus]
  /\ g.alarm_did = 2 /\ kintr[2] /\ waiter_was_interrupted
  /\ ~alarm_armed

(* C38: a wait() that replaces the status it collected by the synthesized  *)
(* time-slice stop is a wait() on the task that the handler had sent the   *)
(* PTRACE_INTERRUPT to, also after a wait() that returned false. *)
C38_RewriteOnlyInterruptedTask ==
  \A t \in Tids :
    (/\ ret.op \in {"wait", "resume_execution"} /\ ret.t = t
     /\ g.waited = t /\ g.waitpid_res = "status"
     /\ wait_status[t] = TimeSliceStatus
     /\ kstatus[t] # TimeSliceStatus)
      => g.had_intr_task = t


----------------------------------------------------------------------------
(* init_buffers() for a tracee with the syscall buffer disabled. *)

(* C39: no call of init_buffers() reaches its store to                     *)
(* syscallbuf_hdr->locked with a null syscallbuf_hdr: with the syscall     *)
(* buffer disabled it returns without touching a buffer header. *)
C39_NoNullHeaderStore == ~g.null_store


----------------------------------------------------------------------------
(* The sample period while recording: record_event() arms the counter, the *)
(* tracee is resumed, retires branches and stops, and is resumed again or  *)
(* asked for its count before its next recorded event. *)

NextRearm ==
  \/ Spawn(0)
  \/ WaitpidReturns("status")
  \/ \E st \in {StopStatus(0, SIGSTOP), SyscallStop} :
       TraceeStop(1, st, 0, 0, 0)
  \/ TraceeRetire(1)
  \/ \E w \in WaitRequest : ResumeExecution(1, "RESUME_SYSCALL", w, 0)
  \/ Wait(1)
  \/ RbcCount(1)
  \/ \E e \in {Event("EV_SYSCALL", HAS_EXEC_INFO),
               Event("EV_NOOP", NO_EXEC_INFO)} :
       RecordEvent(1, e)

SpecRearm == Init /\ [][NextRearm]_vars

(* The task has a recorded event with exec info. *)
HasExecFrame(t) ==
  \E i \in 1 .. Len(trace) :
    trace[i].kind = "frame" /\ trace[i].tid = t /\ trace[i].ev.has_exec_info

(* C37: while recording, the counter of a task that has a recorded event   *)
(* with exec info is started with the sample period max_rbc, whatever      *)
(* rbc_count() and resume_execution() calls have been made since. *)
C37_PeriodStaysInForce ==
  \A t \in alive :
    (recording /\ HasExecFrame(t))
      => hpc_started[t] /\ sample_period[t] = max_rbc


----------------------------------------------------------------------------
(* read_packet() and the end of process_packet() byte by byte: gdb sends   *)
(* bytes, each read() takes some of the bytes sent, and the server reads a *)
(* packet and erases it from the buffer. *)

insize == 4096       \* sizeof(dbg->inbuf)
MaxBytesSent == 6    \* gdb sends up to this many bytes
ByteChars == {"$", "#", "x"}

(* inbuf[i], for i < insize. *)
Cell(b, i) == IF i < Len(b.inbuf) THEN b.inbuf[i + 1] ELSE NUL

Least(S) == CHOOSE i \in S : \A j \in S : i <= j

(* memchr(inbuf + from, c, n) - inbuf, or -1 for NULL. *)
memchr(b, from, c, n) ==
  LET hits == {i \in from .. from + n - 1 : i < insize /\ Cell(b, i) = c}
  IN IF hits = {} THEN -1 ELSE Least(hits)

(* memmove(inbuf, inbuf + from, n). *)
memmove(b, from, n) ==
  [b EXCEPT !.inbuf = [i \in 1 .. Len(b.inbuf) |->
                         IF i <= n THEN Cell(b, from + i - 1)
                         ELSE b.inbuf[i]]]

skip_to_packet_start_bytes(b) ==
  LET hits == {i \in 0 .. b.inlen - 1 :
                 Cell(b, i) = "$" \/ Cell(b, i) = INTERRUPT_CHAR}
  IN IF hits = {} THEN DbgResult([b EXCEPT !.inlen = 0], 1)
     ELSE LET p == Least(hits)
          IN DbgResult([memmove(b, p, b.inlen - p) EXCEPT
                          !.inlen = b.inlen - p], 0)

(* read_data_once() when read() returns k of the bytes sent. *)
read_data_once_bytes(b, k) ==
  LET len == IF Len(b.inbuf) > b.inlen + k THEN Len(b.inbuf)
             ELSE b.inlen + k
      b1 == [b EXCEPT
               !.inbuf = [i \in 1 .. len |->
                            IF b.inlen < i /\ i <= b.inlen + k
                            THEN b.sock[i - b.inlen]
                            ELSE Cell(b, i - 1)],
               !.sock = SubSeq(b.sock, k + 1, Len(b.sock)),
               !.inlen = b.inlen + k]
  IN IF b1.inlen < insize THEN b1 ELSE [b1 EXCEPT !.pc = "aborted"]

(* The second loop of read_packet() from the test of its condition on. *)
find_packet_end(b) ==
  LET p == memchr(b, b.checkedlen, "#", b.inlen) IN
  IF p = -1 THEN [b EXCEPT !.pc = "search_read"]
  ELSE LET b1 == [b EXCEPT !.packetend = p, !.stale = @ \/ p >= b.inlen]
       IN IF "$" = Cell(b1, 0) /\ b1.packetend < b1.inlen
          THEN [b1 EXCEPT !.pc = "returned"]
          ELSE [b1 EXCEPT !.pc = "aborted"]

(* read_packet() from the test of its first loop on. *)
read_packet_bytes(b) ==
  LET r == skip_to_packet_start_bytes(b) IN
  IF r.ret # 0 THEN [r.x EXCEPT !.pc = "skip_read"]
  ELSE IF Cell(r.x, 0) = INTERRUPT_CHAR
  THEN [r.x EXCEPT !.packetend = 1, !.pc = "returned"]
  ELSE find_packet_end([r.x EXCEPT !.checkedlen = 0])

(* The assertion at the start of process_packet() and the erasure at its   *)
(* end. *)
process_packet_bytes(b) ==
  IF ~(\/ INTERRUPT_CHAR = Cell(b, 0)
       \/ "$" = Cell(b, 0) /\ memchr(b, 0, "#", b.inlen) = b.packetend)
  THEN [b EXCEPT !.pc = "aborted"]
  ELSE
    LET b1 == IF INTERRUPT_CHAR = Cell(b, 0) THEN b
              ELSE [b EXCEPT !.inbuf[b.packetend + 1] = NUL]
        b2 == memmove(b1, b.packetend, b.inlen - b.packetend)
    IN [b2 EXCEPT !.inlen = b.inlen - b.packetend,
                  !.pc = "idle",
                  !.pre = [inbuf |-> b.inbuf, inlen |-> b.inlen,
                           packetend |-> b.packetend]]

BytesCommit(b) == DCommit([DSt EXCEPT !.dbg.bytes = b])

GdbSendsByte(c) ==
  /\ dbg.bytes.pc # "aborted"
  /\ dbg.bytes.sent < MaxBytesSent
  /\ BytesCommit([dbg.bytes EXCEPT !.sock = Append(@, c), !.sent = @ + 1])

ReadPacketBytes ==
  /\ dbg.bytes.pc = "idle"
  /\ BytesCommit(read_packet_bytes([dbg.bytes EXCEPT !.pre = NoBytesPre]))

ReadDataBytes(k) ==
  /\ dbg.bytes.pc \in {"skip_read", "search_read"}
  /\ k \in 1 .. Len(dbg.bytes.sock)
  /\ LET b == read_data_once_bytes(dbg.bytes, k)
     IN BytesCommit(
          IF b.pc = "aborted" THEN b
          ELSE IF b.pc = "skip_read" THEN read_packet_bytes(b)
          ELSE find_packet_end([b EXCEPT !.checkedlen = b.inlen]))

ProcessPacketBytes ==
  /\ dbg.bytes.pc = "returned"
  /\ BytesCommit(process_packet_bytes(dbg.bytes))

NextReadPacket ==
  \/ \E c \in ByteChars : GdbSendsByte(c)
  \/ ReadPacketBytes
  \/ \E k \in 1 .. MaxBytesSent : ReadDataBytes(k)
  \/ ProcessPacketBytes

SpecReadPacket == Init /\ [][NextReadPacket]_vars

(* C36: the search of read_packet() for the end of the packet never ends   *)
(* on a byte at or after inlen; when read_packet() has returned for a '$'  *)
(* packet, packetend is the index of the first '#' of the buffer and       *)
(* packetend < inlen < insize; and process_packet() has taken exactly      *)
(* packetend bytes off the front of the buffer and kept the bytes after    *)
(* the '#' in order. *)
C36_PacketEndInsideInput ==
  LET b == dbg.bytes IN
  /\ ~b.stale
  /\ (b.pc = "returned" /\ Cell(b, 0) = "$")
       => /\ b.packetend = memchr(b, 1, "#", b.inlen - 1)
          /\ b.packetend > 0
          /\ b.packetend < b.inlen /\ b.inlen < insize
  /\ (b.pc = "idle" /\ b.pre # NoBytesPre)
       => /\ b.inlen = b.pre.inlen - b.pre.packetend
          /\ \A i \in 1 .. b.inlen - 1 :
               Cell(b, i) = b.pre.inbuf[b.pre.packetend + i + 1]

----------------------------------------------------------------------------
(* The calls of the driver: one request at a time. *)

WatchRequests ==
  { k \o WatchTypes[n] : k \in {"DREQ_SET_", "DREQ_REMOVE_"},
                         n \in DOMAIN WatchTypes }

ReplyCalls ==
  {"dbg_reply_get_current_thread", "dbg_reply_get_is_thread_alive",
   "dbg_reply_select_thread", "dbg_reply_get_mem", "dbg_reply_get_offsets",
   "dbg_reply_get_reg", "dbg_reply_get_regs", "dbg_reply_get_stop_reason",
   "dbg_reply_get_thread_list", "dbg_reply_watchpoint_request"}

(* The types of the current request that the assertion at the head of the  *)
(* dbg_reply_*() function lets pass. *)
ReplyAsserts(fn) ==
  CASE fn = "dbg_reply_get_current_thread" -> {"DREQ_GET_CURRENT_THREAD"}
    [] fn = "dbg_reply_get_is_thread_alive" -> {"DREQ_GET_IS_THREAD_ALIVE"}
    [] fn = "dbg_reply_select_thread"
         -> {"DREQ_SET_CONTINUE_THREAD", "DREQ_SET_QUERY_THREAD"}
    [] fn = "dbg_reply_get_mem" -> {"DREQ_GET_MEM"}
    [] fn = "dbg_reply_get_offsets" -> {"DREQ_GET_OFFSETS"}
    [] fn = "dbg_reply_get_reg" -> {"DREQ_GET_REG"}
    [] fn = "dbg_reply_get_regs" -> {"DREQ_GET_REGS"}
    [] fn = "dbg_reply_get_stop_reason" -> {"DREQ_GET_STOP_REASON"}
    [] fn = "dbg_reply_get_thread_list" -> {"DREQ_GET_THREAD_LIST"}
    [] fn = "dbg_reply_watchpoint_request" -> WatchRequests

dbg_reply_get_offsets(x) == consume_request(write_packet(x, ""))

(* dbg_reply_invalid_target(): the request it is given is the current one. *)
dbg_reply_invalid_target(x, req) ==
  IF req # x.dbg.req THEN DAbort(x)
  ELSE consume_request(write_packet(x, "E00"))

(* The dbg_reply_*() function fn that answers whatever request is current. *)
dbg_reply_call_any_request(x, fn, thread, ok) ==
  IF x.dbg.req.type = "DREQ_GET_OFFSETS" THEN dbg_reply_get_offsets(x)
  ELSE IF x.dbg.req.type \in UNION { ReplyAsserts(f) : f \in ReplyCalls }
  THEN dbg_reply(x, thread, ok)
  ELSE consume_request(write_packet(x, ""))

(* The dbg_reply_*() function fn, called whatever the current request is. *)
dbg_reply_call(x, fn, thread, ok) ==
  IF x.dbg.req.type \notin ReplyAsserts(fn) THEN DAbort(x)
  ELSE IF fn = "dbg_reply_get_offsets" THEN dbg_reply_get_offsets(x)
  ELSE dbg_reply(x, thread, ok)

DbgReplyCall(fn, thread, ok) ==
  /\ gdb.pc = "idle"
  /\ DCommit(dbg_reply_call(DCall(fn), fn, thread, ok))

(* The driver passes the request that dbg_get_request() gave it last. *)
DbgReplyInvalidTarget ==
  /\ gdb.pc = "idle"
  /\ gdb.ret # NoReq
  /\ DCommit(dbg_reply_invalid_target(DCall("dbg_reply_invalid_target"),
                                      gdb.ret))

NextDriver ==
  \/ NextServer({"QNonStop:1", "vCont;c", "qC", "qOffsets", "g", "Hg42"},
               MaxQueries)
  \/ GdbSendsInterrupt
  \/ \E fn \in ReplyCalls, ok \in BOOLEAN : DbgReplyCall(fn, Thread42, ok)
  \/ DbgReplyInvalidTarget
  \/ DbgNotifyStop(Thread42, SIGTRAP)
  \/ DbgNotifyExitCode(0)
  \/ DbgNotifyExitSignal(9)

SpecDriver == InitReplay /\ [][NextDriver]_vars

(* The step is a call of the driver: it starts where no call is in         *)
(* progress, and gdb sends nothing in it. *)
DriverCall ==
  /\ gdb.pc = "idle"
  /\ gdb'.sent = gdb.sent /\ gdb'.open = gdb.open
  /\ <<dbg, gdb>>' # <<dbg, gdb>>

(* The current request lets the call op pass its assertion. *)
CallAllowed(op) ==
  IF op = "dbg_get_request" THEN ~request_needs_immediate_response(dbg.req)
  ELSE IF op \in NotifyCalls
  THEN dbg_is_resume_request(dbg.req) \/ dbg.req.type = "DREQ_INTERRUPT"
  ELSE IF op = "dbg_reply_invalid_target" THEN gdb.ret = dbg.req
  ELSE dbg.req.type \in ReplyAsserts(op)

(* C33: the driver answers one request at a time: a call of                *)
(* dbg_get_request() with a current request other than none, continue or   *)
(* step, a call of a dbg_reply_*() function with a current request that is *)
(* not of its kind and a call of a dbg_notify_*() function with a current  *)
(* request other than continue, step or interrupt fail their assertion;    *)
(* the other calls pass it (dbg_notify_stop() in non-stop mode); and after *)
(* every dbg_reply_*() and dbg_notify_*() call that returns the current    *)
(* request is none and the output buffer is empty, all of it written to    *)
(* the socket. *)
C33_OneRequestAtATime ==
  [][DriverCall
       => /\ ~CallAllowed(gdb'.op) => gdb'.pc = "aborted"
          /\ (CallAllowed(gdb'.op)
              /\ (gdb'.op = "dbg_notify_stop" => dbg.non_stop))
               => gdb'.pc # "aborted"
          /\ (gdb'.op # "dbg_get_request" /\ gdb'.pc = "idle")
               => /\ dbg'.req = NoReq
                  /\ dbg'.outbuf = << >>
                  /\ \E i \in DOMAIN gdb'.wire :
                       /\ i > Len(gdb.wire)
                       /\ gdb'.wire[i].by = gdb'.op]_vars

(* The driver has answered the request for the registers and the answer is *)
(* on the socket. *)
C33_Witness ==
  /\ gdb.op = "dbg_reply_get_regs"
  /\ gdb.pc = "idle"
  /\ dbg.req = NoReq
  /\ dbg.outbuf = << >>
  /\ gdb.wire # << >>
  /\ gdb.wire[Len(gdb.wire)].type = "DREQ_GET_REGS"
  /\ gdb.wire[Len(gdb.wire)].by = "dbg_reply_get_regs"

----------------------------------------------------------------------------
(* A resume request that waits for its notification. *)

(* dbg_get_request() has given a continue or step request to the driver,   *)
(* the driver has called no dbg_notify_*() function since, and the packet  *)
(* that followed the resume packet has been answered inside the server. *)
InternalPacketAfterResume ==
  /\ gdb.op = "dbg_get_request"
  /\ dbg_is_resume_request(gdb.ret)
  /\ gdb.n = gdb.ret_n + 1
  /\ gdb.last.ret = 0
  /\ ~DStopped(DSt)

(* C34: a packet that the server answers itself while a continue or step   *)
(* request waits for its notification does not discard the request: after  *)
(* the packet has been processed the current request, which is what        *)
(* dbg_get_request() returns to the driver, is still the same resume       *)
(* request. *)
C34_ResumeRequestKept ==
  InternalPacketAfterResume => dbg.req = gdb.ret

(* C35: whenever dbg_get_request() has returned a request to the driver,   *)
(* all that the server has written is on the socket and the output buffer  *)
(* is empty, with and without acknowledgements; the OK for a resume packet *)
(* does not stay in the buffer until the notification of the next stop. *)
C35_FlushedOnReturn ==
  (gdb.op = "dbg_get_request" /\ gdb.pc = "idle" /\ gdb.ret # NoReq)
    => dbg.outbuf = << >>


====
